---- MODULE Spec2Model ----
(***************************************************************************)
(* Farmer piece cache of subspace-farmer: the cache state                  *)
(* (piece_cache_state.rs), the cache worker and the reader facade          *)
(* (farmer_cache.rs).                                                      *)
(*                                                                         *)
(* Option<T> is a sequence of length at most one: None is << >> and        *)
(* Some(x) is <<x>>.  A cache offset is [cache_index, piece_offset];       *)
(* cache_index counts from 1 (position in the backends sequence),          *)
(* piece_offset from 0 as in the source.                                   *)
(***************************************************************************)
EXTENDS Integers, Sequences, FiniteSets, TLC

\* ------------------------------------------------------------------ bounds
MaxSegment == 1
PiecesPerSegment == 2
KeyBits == 4
MaxChannel == 2
MaxReplace == 2
MaxReadErrors == 1
MaxScanErrors == 1
OpsKept == 2
MaxPlotCaches == 2
MaxFetchAdds == 5
CONCURRENT_PIECES_TO_DOWNLOAD == 2
INTERMEDIATE_CACHE_UPDATE_INTERVAL == 2

\* Physical piece caches: max_num_elements() of each.
Capacity == <<2, 1>>
PieceCacheIds == DOMAIN Capacity
MaxCapacity == CHOOSE n \in {Capacity[c] : c \in DOMAIN Capacity} :
                  \A c \in DOMAIN Capacity : Capacity[c] <= n
\* The lists of piece caches replace_backing_caches is called with.
CacheLists == {<<1, 2>>, <<2>>}

None == << >>
Some(x) == <<x>>

SegmentIndexes == 0..MaxSegment
PieceIndexes == 0..((MaxSegment + 1) * PiecesPerSegment - 1)

\* SegmentIndex::segment_piece_indexes
segment_piece_indexes(s) == [i \in 1..PiecesPerSegment |-> s * PiecesPerSegment + i - 1]

SeqToSet(q) == {q[i] : i \in DOMAIN q}

RECURSIVE Pow2(_)
Pow2(n) == IF n = 0 THEN 1 ELSE 2 * Pow2(n - 1)

KeySpace == Pow2(KeyBits)

\* RecordKey::from(piece_index.to_multihash()): an injective encoding of the
\* piece index into the key space.
ToRecordKey(piece_index) == (5 * piece_index + 3) % KeySpace
RecordKeys == {ToRecordKey(p) : p \in PieceIndexes}

\* The identity of the farmer, a point of the key space.
peer_id == 6

RECURSIVE XorBits(_, _, _)
XorBits(a, b, n) ==
    IF n = 0 THEN 0
    ELSE (IF (a % 2) = (b % 2) THEN 0 ELSE 1) + 2 * XorBits(a \div 2, b \div 2, n - 1)

\* XOR distance of a piece's key to the peer identity.
Distance(piece_index) == XorBits(ToRecordKey(piece_index), peer_id, KeyBits)

\* -------------------------------------------------------- Proximity Heap
\* UniqueRecordBinaryHeap: [keys: set of piece indexes, limit].
Farthest(keys) == CHOOSE p \in keys : \A q \in keys : Distance(q) <= Distance(p)

HeapShouldIncludeKey(h, p) ==
    \/ Cardinality(h.keys) < h.limit
    \/ /\ h.keys # {}
       /\ h.limit > 0
       /\ Distance(p) < Distance(Farthest(h.keys))

\* insert(key) -> [heap, evicted]; the structure is a set: a key it already
\* holds is not inserted again and evicts nothing
HeapInsert(h, p) ==
    IF p \in h.keys
    THEN [heap |-> h, evicted |-> None]
    ELSE IF Cardinality(h.keys) < h.limit
    THEN [heap |-> [h EXCEPT !.keys = @ \cup {p}], evicted |-> None]
    ELSE IF HeapShouldIncludeKey(h, p)
    THEN LET old == Farthest(h.keys)
         IN [heap |-> [h EXCEPT !.keys = (@ \ {old}) \cup {p}], evicted |-> Some(old)]
    ELSE [heap |-> h, evicted |-> None]

HeapRemove(h, p) == [h EXCEPT !.keys = @ \ {p}]

RECURSIVE HeapInsertAll(_, _, _)
HeapInsertAll(h, q, i) ==
    IF i > Len(q) THEN h ELSE HeapInsertAll(HeapInsert(h, q[i]).heap, q, i + 1)

\* All piece indexes of segments 0..=last, in insertion order.
RECURSIVE PiecesUpTo(_)
PiecesUpTo(last) ==
    IF last < 0 THEN << >> ELSE PiecesUpTo(last - 1) \o segment_piece_indexes(last)

\* heap.clear(); heap.set_limit(limit); insert every piece of 0..=last
HeapRebuild(limit, last) ==
    HeapInsertAll([keys |-> {}, limit |-> limit], PiecesUpTo(last), 1)

\* ----------------------------------------------------------- CacheBackend
CacheBackend_new(backend, total_capacity) ==
    [backend |-> backend, used_capacity |-> 0, total_capacity |-> total_capacity]

\* Mutant of next_free: the slot is handed out, used_capacity is not advanced.
next_free_NotAdvanced(b) ==
    [backend |-> b,
     offset |-> IF b.used_capacity < b.total_capacity THEN Some(b.used_capacity) ELSE None]

\* Mutant of next_free: a slot is handed out without the capacity being looked at.
next_free_Unchecked(b) ==
    [backend |-> [b EXCEPT !.used_capacity = @ + 1], offset |-> Some(b.used_capacity)]

\* next_free(&mut self) -> [backend, offset]
next_free(b) ==
    IF b.used_capacity < b.total_capacity
    THEN [backend |-> [b EXCEPT !.used_capacity = @ + 1], offset |-> Some(b.used_capacity)]
    ELSE [backend |-> b, offset |-> None]

free_size(b) == b.total_capacity - b.used_capacity

FarmerCacheOffset(cache_index, piece_offset) ==
    [cache_index |-> cache_index, piece_offset |-> piece_offset]

\* ------------------------------------------------------- PieceCachesState
EmptyMap == [k \in {} |-> None]

PieceCachesState_new(stored_pieces, dangling_free_offsets, backends) ==
    [stored_pieces |-> stored_pieces,
     dangling_free_offsets |-> dangling_free_offsets,
     backends |-> backends]

PieceCachesState_default == PieceCachesState_new(EmptyMap, << >>, << >>)

RECURSIVE SumTotal(_, _)
SumTotal(backends, i) ==
    IF i > Len(backends) THEN 0 ELSE backends[i].total_capacity + SumTotal(backends, i + 1)

total_capacity(cs) == SumTotal(cs.backends, 1)

RECURSIVE SumUsed(_, _)
SumUsed(backends, i) ==
    IF i > Len(backends) THEN 0 ELSE backends[i].used_capacity + SumUsed(backends, i + 1)

MapInsert(m, k, v) == [x \in DOMAIN m \cup {k} |-> IF x = k THEN v ELSE m[x]]
MapRemove(m, k) == [x \in DOMAIN m \ {k} |-> m[x]]
MapValues(m) == {m[k] : k \in DOMAIN m}

MaxFreeSize(cs) ==
    CHOOSE n \in {free_size(cs.backends[i]) : i \in DOMAIN cs.backends} :
        \A i \in DOMAIN cs.backends : free_size(cs.backends[i]) <= n

\* Mutant of pop_free_offset: the offset queued last is handed out first.
pop_free_offset_NewestFirst(cs) ==
    IF cs.dangling_free_offsets # << >>
    THEN {[state |-> [cs EXCEPT !.dangling_free_offsets =
                                    SubSeq(@, 1, Len(@) - 1)],
           offset |-> Some(cs.dangling_free_offsets[Len(cs.dangling_free_offsets)])]}
    ELSE IF cs.backends = << >> \/ MaxFreeSize(cs) = 0
    THEN {[state |-> cs, offset |-> None]}
    ELSE {[state |-> [cs EXCEPT !.backends[i] = next_free(@).backend],
           offset |-> Some(FarmerCacheOffset(i, next_free(cs.backends[i]).offset[1]))] :
             i \in {j \in DOMAIN cs.backends : free_size(cs.backends[j]) = MaxFreeSize(cs)}}

\* Mutant of pop_free_offset: the backend with the fewest free slots is used.
pop_free_offset_LeastFree(cs) ==
    IF cs.dangling_free_offsets # << >>
    THEN {[state |-> [cs EXCEPT !.dangling_free_offsets = Tail(@)],
           offset |-> Some(Head(cs.dangling_free_offsets))]}
    ELSE IF cs.backends = << >> \/ MaxFreeSize(cs) = 0
    THEN {[state |-> cs, offset |-> None]}
    ELSE {[state |-> [cs EXCEPT !.backends[i] = next_free(@).backend],
           offset |-> Some(FarmerCacheOffset(i, next_free(cs.backends[i]).offset[1]))] :
             i \in {j \in DOMAIN cs.backends :
                      /\ free_size(cs.backends[j]) > 0
                      /\ \A k \in DOMAIN cs.backends :
                            free_size(cs.backends[k]) > 0 =>
                                free_size(cs.backends[j]) <= free_size(cs.backends[k])}}

\* pop_free_offset(&mut self): the possible results [state, offset].  The
\* backends are sorted by free_size with an unstable sort, so which of several
\* backends of the same largest free_size comes first is not determined.
pop_free_offset(cs) ==
    IF cs.dangling_free_offsets # << >>
    THEN {[state |-> [cs EXCEPT !.dangling_free_offsets = Tail(@)],
           offset |-> Some(Head(cs.dangling_free_offsets))]}
    ELSE IF cs.backends = << >> \/ MaxFreeSize(cs) = 0
    THEN {[state |-> cs, offset |-> None]}
    ELSE {[state |-> [cs EXCEPT !.backends[i] = next_free(@).backend],
           offset |-> Some(FarmerCacheOffset(i, next_free(cs.backends[i]).offset[1]))] :
             i \in {j \in DOMAIN cs.backends : free_size(cs.backends[j]) = MaxFreeSize(cs)}}

get_stored_piece(cs, key) ==
    IF key \in DOMAIN cs.stored_pieces THEN Some(cs.stored_pieces[key]) ELSE None

contains_stored_piece(cs, key) == key \in DOMAIN cs.stored_pieces

\* push_stored_piece(&mut self, key, offset) -> [state, previous]
push_stored_piece(cs, key, cache_offset) ==
    [state |-> [cs EXCEPT !.stored_pieces = MapInsert(@, key, cache_offset)],
     previous |-> get_stored_piece(cs, key)]

\* Mutant of remove_stored_piece: the offset is returned, the entry stays.
remove_stored_piece_Kept(cs, key) ==
    [state |-> cs, offset |-> get_stored_piece(cs, key)]

\* Mutant of remove_stored_piece: the entry goes, its offset is not returned.
remove_stored_piece_NoOffset(cs, key) ==
    [state |-> [cs EXCEPT !.stored_pieces = MapRemove(@, key)], offset |-> None]

\* remove_stored_piece(&mut self, key) -> [state, offset]
remove_stored_piece(cs, key) ==
    [state |-> [cs EXCEPT !.stored_pieces = MapRemove(@, key)],
     offset |-> get_stored_piece(cs, key)]

\* Mutant of push_dangling_free_offset: the offset is not queued.
push_dangling_free_offset_Dropped(cs, offset) == cs

push_dangling_free_offset(cs, offset) ==
    [cs EXCEPT !.dangling_free_offsets = Append(@, offset)]

get_backend(cs, cache_index) ==
    IF cache_index \in DOMAIN cs.backends THEN Some(cs.backends[cache_index]) ELSE None

Perms(S) ==
    {f \in [1..Cardinality(S) -> S] : \A i, j \in 1..Cardinality(S) : f[i] = f[j] => i = j}

\* Mutant of free_unneeded_stored_pieces: the offsets of the unneeded pieces
\* are queued as free, their entries stay in stored_pieces.
free_unneeded_stored_pieces_Retained(cs, piece_indices_to_store) ==
    LET unneeded == DOMAIN cs.stored_pieces \ DOMAIN piece_indices_to_store
        kept == DOMAIN cs.stored_pieces \cap DOMAIN piece_indices_to_store
    IN {[state |-> [cs EXCEPT
                      !.dangling_free_offsets =
                          @ \o [i \in DOMAIN order |-> cs.stored_pieces[order[i]]]],
         to_store |-> [k \in DOMAIN piece_indices_to_store \ kept |->
                          piece_indices_to_store[k]]] :
          order \in Perms(unneeded)}

\* Mutant of free_unneeded_stored_pieces: nothing is freed, only the pieces
\* already stored are taken off the pieces to download.
free_unneeded_stored_pieces_Nothing(cs, piece_indices_to_store) ==
    {[state |-> cs,
      to_store |-> [k \in DOMAIN piece_indices_to_store \ DOMAIN cs.stored_pieces |->
                       piece_indices_to_store[k]]]}

\* Mutant of free_unneeded_stored_pieces: the stored pieces stay among the
\* pieces to download.
free_unneeded_stored_pieces_AllToStore(cs, piece_indices_to_store) ==
    LET unneeded == DOMAIN cs.stored_pieces \ DOMAIN piece_indices_to_store
        kept == DOMAIN cs.stored_pieces \cap DOMAIN piece_indices_to_store
    IN {[state |-> [cs EXCEPT
                      !.stored_pieces = [k \in kept |-> cs.stored_pieces[k]],
                      !.dangling_free_offsets =
                          @ \o [i \in DOMAIN order |-> cs.stored_pieces[order[i]]]],
         to_store |-> piece_indices_to_store] :
          order \in Perms(unneeded)}

\* free_unneeded_stored_pieces(&mut self, piece_indices_to_store): the
\* possible results [state, to_store].  piece_indices_to_store is the map
\* record key -> piece index; extract_if visits the hash map in no particular
\* order, so the freed offsets are queued in any order.
free_unneeded_stored_pieces(cs, piece_indices_to_store) ==
    LET unneeded == DOMAIN cs.stored_pieces \ DOMAIN piece_indices_to_store
        kept == DOMAIN cs.stored_pieces \cap DOMAIN piece_indices_to_store
    IN {[state |-> [cs EXCEPT
                      !.stored_pieces = [k \in kept |-> cs.stored_pieces[k]],
                      !.dangling_free_offsets =
                          @ \o [i \in DOMAIN order |-> cs.stored_pieces[order[i]]]],
         to_store |-> [k \in DOMAIN piece_indices_to_store \ kept |->
                          piece_indices_to_store[k]]] :
          order \in Perms(unneeded)}

\* Mutant of reuse: the maps are handed over with their entries.
reuse_Kept(cs) ==
    [stored_pieces |-> cs.stored_pieces, dangling_free_offsets |-> cs.dangling_free_offsets]

reuse(cs) == [stored_pieces |-> EmptyMap, dangling_free_offsets |-> << >>]


\* ---------------------------------------------------------------- state
VARIABLES
    disk,                       \* contents of every physical piece cache
    piece_caches,               \* FarmerCacheWorker::piece_caches, behind the lock
    heap,                       \* CacheWorkerState::heap
    last_segment_index,         \* CacheWorkerState::last_segment_index
    channel,                    \* worker_sender -> worker_receiver
    pc,                         \* where the worker task is
    caches,                     \* initialize: the local `caches`
    init_last_segment_index,    \* initialize: the local `last_segment_index`
    piece_indices_to_store,     \* initialize: pieces not yet handed to the getter
    downloading_pieces,         \* initialize: pieces in flight
    downloaded_pieces_count,    \* initialize
    pieces_to_download_total,   \* initialize
    init_return,                \* where initialize returns to
    queue,                      \* keep-up / process_segment_header: pieces left
    target_segment,             \* keep-up: head; process_segment_header: segment
    node_head,                  \* node: last archived segment
    delivered,                  \* last segment header delivered to the worker
    acknowledged,               \* node: acknowledgments received per segment
    reader,                     \* one get_piece call in progress
    replaces_left,              \* replace_backing_caches calls still to come
    read_errors_left,           \* backend reads of get_piece still to fail
    scan_errors_left,           \* backend scans still to fail
    reliable,                   \* no node call, piece fetch or backend write fails
    held,                       \* a caller of PieceCachesState: the offset it holds
    ops,                        \* a caller of PieceCachesState: its last calls
    next_plot_cache,            \* PlotCaches::next_plot_cache
    plot_call,                  \* one store_additional_piece call
    observing,                  \* a handler of sync progress is registered
    progress,                   \* what it was given by the initialization under way
    channel_closed,             \* every sender of worker commands is dropped
    stream_ended,               \* the node has ended the segment notifications
    failed_read                 \* history: the slot get_piece's last failed read was of

cacheVars == <<disk, piece_caches, heap>>
initVars == <<caches, init_last_segment_index, piece_indices_to_store, downloading_pieces,
              downloaded_pieces_count, pieces_to_download_total, init_return>>
stepVars == <<queue, target_segment>>
nodeVars == <<node_head, delivered, acknowledged>>
callerVars == <<held, ops>>
plotVars == <<next_plot_cache, plot_call>>
linkVars == <<channel_closed, stream_ended>>
noteVars == <<failed_read>>
fixedVars == <<replaces_left, read_errors_left, scan_errors_left, reliable, callerVars,
               plotVars, observing, linkVars, noteVars>>
budgetVars == <<fixedVars, progress>>
vars == <<cacheVars, last_segment_index, channel, pc, initVars, stepVars, nodeVars, reader,
          budgetVars>>

EmptyDisk == [c \in PieceCacheIds |-> [o \in 0..(Capacity[c] - 1) |-> None]]

\* What the piece caches hold when the farmer starts: nothing, a wanted piece
\* and a piece of a later segment, a hole below a piece, the same piece twice.
PriorContents ==
    {EmptyDisk,
     [EmptyDisk EXCEPT ![1] = [o \in DOMAIN @ |-> IF o = 0 THEN Some(0) ELSE Some(3)]],
     [EmptyDisk EXCEPT ![1] = [o \in DOMAIN @ |-> IF o = 1 THEN Some(1) ELSE None]],
     [EmptyDisk EXCEPT ![1] = [o \in DOMAIN @ |-> Some(0)], ![2] = [o \in DOMAIN @ |-> Some(0)]]}

\* What a get_piece call returned: nothing, a piece of a piece cache or a
\* piece of a plot cache; whether it read the plot caches; the ForgetKey
\* commands it sent.
Returned(from, piece_index, plot, sent) ==
    [from |-> from, piece_index |-> piece_index, plot |-> plot, sent |-> sent]
NotReturned == Returned("nothing", 0, FALSE, 0)

\* The history of get_piece's failed reads: not kept, none yet, or the key,
\* the backend and the offset of the last one.
NotTraced == [kept |-> FALSE]
NoFailedRead == [kept |-> TRUE, failed |-> FALSE]
FailedRead(key, backend, piece_offset) ==
    [kept |-> TRUE, failed |-> TRUE, key |-> key, backend |-> backend,
     piece_offset |-> piece_offset]

IdleReader(returned) ==
    [phase |-> "idle", key |-> 0, backend |-> 0, cache_index |-> 0, piece_offset |-> 0,
     returned |-> returned]

\* One store_additional_piece call: the plot caches it found and what each
\* answers to try_store_piece, the turns of its loop still to come, the plot
\* caches it has tried, in order, and what it returned.
PlotCall(answers, turns, tried, returned) ==
    [answers |-> answers, turns |-> turns, tried |-> tried, returned |-> returned]
NoPlotCall == PlotCall(<< >>, 0, << >>, None)

\* The state after FarmerCache::new (lines 1022-1059) and the first lines of
\* run (lines 170-178); the environment will replace the backing caches
\* `replaces` times, fail `read_errors` reads of get_piece and `scan_errors`
\* scans of a backend.
StartTraced(replaces, read_errors, scan_errors, dependable, traced) ==
    /\ disk \in PriorContents
    /\ piece_caches = PieceCachesState_default
    /\ heap = [keys |-> {}, limit |-> 0]
    /\ last_segment_index = 0
    /\ channel = << >>
    /\ pc = "recv_first"
    /\ caches = PieceCachesState_default
    /\ init_last_segment_index = 0
    /\ piece_indices_to_store = << >>
    /\ downloading_pieces = {}
    /\ downloaded_pieces_count = 0
    /\ pieces_to_download_total = 0
    /\ init_return = "subscribe"
    /\ queue = << >>
    /\ target_segment = 0
    /\ node_head = 0
    /\ delivered = 0
    /\ acknowledged = [s \in SegmentIndexes |-> 0]
    /\ reader = IdleReader(NotReturned)
    /\ replaces_left = replaces
    /\ read_errors_left = read_errors
    /\ scan_errors_left = scan_errors
    /\ reliable = dependable
    /\ held = None
    /\ ops = << >>
    /\ next_plot_cache = 0
    /\ plot_call = NoPlotCall
    /\ observing = FALSE
    /\ progress = << >>
    /\ channel_closed = FALSE
    /\ stream_ended = FALSE
    /\ failed_read = IF traced THEN NoFailedRead ELSE NotTraced

\* The state after FarmerCache::new, failed reads not traced.
Start(replaces, read_errors, scan_errors, dependable) ==
    StartTraced(replaces, read_errors, scan_errors, dependable, FALSE)

\* The worker and its environment, no reader.
Init == Start(MaxReplace, 0, MaxScanErrors, FALSE)

\* The worker, its environment and a reader calling get_piece.
InitReader == Start(MaxReplace, MaxReadErrors, 0, FALSE)

\* The worker, its environment and a reader calling get_piece, the slot of
\* its failed read kept.
InitForget == StartTraced(MaxReplace, MaxReadErrors, 0, FALSE, TRUE)

\* The worker and its environment, every node call, piece fetch, backend
\* scan and backend write succeeding.
InitReliable == Start(MaxReplace, 0, 0, TRUE)

\* The worker, its environment and a task looking keys up; no node call,
\* fetch, scan, write or read of get_piece fails.
InitLookups == Start(MaxReplace, 0, 0, TRUE)

\* The worker and its environment, no scan failing, with a handler of sync
\* progress registered at some time.
InitProgress == Start(MaxReplace, 0, 0, FALSE)

\* A caller of PieceCachesState alone, the worker not running.
InitState == Start(0, 0, 0, TRUE)

\* The ways a piece fetch or a backend write may fail: none when the
\* environment is reliable (then no node call fails either).
Failures == IF reliable THEN {} ELSE {FALSE}

\* The pieces of `pieces` that the node returns
Fetched(pieces) == IF reliable THEN {pieces} ELSE SUBSET pieces

\* PieceCache::write_piece, when it succeeds
\* Mutant of write_piece: the piece goes to the first piece cache there is,
\* whichever backend the offset was allocated for.
write_piece_FirstCache(d, backend, piece_offset, piece_index) ==
    [d EXCEPT ![1][piece_offset] = Some(piece_index)]

write_piece(d, backend, piece_offset, piece_index) ==
    [d EXCEPT ![backend][piece_offset] = Some(piece_index)]

\* ------------------------------------------------- initialize: the scan
\* The loop over contents() of one backend (lines 355-383), from offset o up
\* to the first item that fails (stop), st being the CacheState built so far.
RECURSIVE ScanContents(_, _, _, _)
ScanContents(st, cache_index, o, stop) ==
    IF o >= stop THEN st
    ELSE LET maybe_piece_index == disk[st.backend.backend][o]
             offset == FarmerCacheOffset(cache_index, o)
         IN IF maybe_piece_index # None
            THEN ScanContents(
                   [st EXCEPT !.backend.used_capacity = o + 1,
                              !.cache_stored_pieces =
                                  MapInsert(@, ToRecordKey(maybe_piece_index[1]), offset)],
                   cache_index, o + 1, stop)
            ELSE ScanContents(
                   [st EXCEPT !.cache_free_offsets = Append(@, offset)],
                   cache_index, o + 1, stop)

\* Mutant of ScanBackend: a scan that fails reports nothing.
ScanBackend_Discarded(cache_index, new_cache, stop) ==
    ScanContents([cache_stored_pieces |-> EmptyMap,
                  cache_free_offsets |-> << >>,
                  backend |-> CacheBackend_new(new_cache, Capacity[new_cache])],
                 cache_index, 0, IF stop < Capacity[new_cache] THEN 0 ELSE stop)

\* init_fut of one backend (lines 326-393)
ScanBackend(cache_index, new_cache, stop) ==
    ScanContents([cache_stored_pieces |-> EmptyMap,
                  cache_free_offsets |-> << >>,
                  backend |-> CacheBackend_new(new_cache, Capacity[new_cache])],
                 cache_index, 0, stop)

MapExtend(m, n) == [k \in DOMAIN m \cup DOMAIN n |-> IF k \in DOMAIN n THEN n[k] ELSE m[k]]

\* Mutant of IsDangling: every free offset the scan reported is kept.
IsDangling_Every(free_offset, backend) == TRUE

\* which free offsets of a scanned backend are kept as dangling (lines 419-423)
IsDangling(free_offset, backend) == free_offset.piece_offset < backend.used_capacity

\* The join of the per-backend results in input order (lines 414-434)
RECURSIVE MergeCaches(_, _, _, _)
MergeCaches(acc, new_piece_caches, stops, i) ==
    IF i > Len(new_piece_caches) THEN acc
    ELSE LET cache == ScanBackend(i, new_piece_caches[i], stops[i])
         IN MergeCaches(
              PieceCachesState_new(
                MapExtend(acc.stored_pieces, cache.cache_stored_pieces),
                acc.dangling_free_offsets \o
                    SelectSeq(cache.cache_free_offsets,
                              LAMBDA free_offset : IsDangling(free_offset, cache.backend)),
                Append(acc.backends, cache.backend)),
              new_piece_caches, stops, i + 1)

\* Ascending sequence of the elements of a set of numbers
RECURSIVE SortedSeq(_)
SortedSeq(S) ==
    IF S = {} THEN << >>
    ELSE LET m == CHOOSE x \in S : \A y \in S : x <= y
         IN <<m>> \o SortedSeq(S \ {m})

Take(q, n) == SubSeq(q, 1, IF Len(q) < n THEN Len(q) ELSE n)
Drop(q, n) == SubSeq(q, n + 1, Len(q))

ResetInit ==
    /\ caches' = PieceCachesState_default
    /\ init_last_segment_index' = 0
    /\ piece_indices_to_store' = << >>
    /\ downloading_pieces' = {}
    /\ downloaded_pieces_count' = 0
    /\ pieces_to_download_total' = 0

\* The backends whose scan stops before the end of their contents
FailedScans(new_piece_caches, stops) ==
    {i \in DOMAIN new_piece_caches : stops[i] < Capacity[new_piece_caches[i]]}

\* Where the scan of each backend stops: at its end, or for the backends
\* whose contents fail at the item that fails.
ScanStops(new_piece_caches) ==
    {stops \in [DOMAIN new_piece_caches -> 0..MaxCapacity] :
       /\ \A i \in DOMAIN new_piece_caches : stops[i] <= Capacity[new_piece_caches[i]]
       /\ Cardinality(FailedScans(new_piece_caches, stops)) <= scan_errors_left}

\* Mutant of TakePieceCaches: the old state stays published during the scan.
TakePieceCaches_Left(cs) == cs

\* mem::take(&mut *self.piece_caches.write().await).reuse() (lines 293-295):
\* what readers see from then on
TakePieceCaches(cs) == PieceCachesState_default

\* A progress value in percent, as the fraction <<numerator, denominator>>
\* (the code computes it in f32)
Progress(count, total) == <<100 * count, total>>
ProgressStart == <<0, 1>>
ProgressDone == <<100, 1>>
ProgressLess(a, b) == a[1] * b[2] < b[1] * a[2]

\* self.handlers.progress.call_simple(..): the registered handler is given
\* the values
Deliver(values) == progress' = IF observing THEN progress \o values ELSE progress

\* Mutant of DeliversProgress: progress is reported after the last piece too.
DeliversProgress_LastToo(stored, count, total) == stored

\* Whether the download loop reports progress after a piece (lines 592-605):
\* after every piece stored but the last of the pieces to download
DeliversProgress(stored, count, total) == stored /\ count # total

\* initialize, lines 291-434: take the published state, scan the new
\* backends (each scan may stop at a failing item), merge.
InitializeScan(new_piece_caches, return_to) ==
    /\ piece_caches' = TakePieceCaches(piece_caches)
    /\ progress' = << >>
    /\ init_return' = return_to
    /\ \E stops \in ScanStops(new_piece_caches), spawned \in BOOLEAN :
         IF spawned \/ scan_errors_left = 0
         THEN /\ caches' = MergeCaches(
                             PieceCachesState_new(reuse(piece_caches).stored_pieces,
                                                  reuse(piece_caches).dangling_free_offsets,
                                                  << >>),
                             new_piece_caches, stops, 1)
              /\ scan_errors_left' =
                     scan_errors_left - Cardinality(FailedScans(new_piece_caches, stops))
              /\ pc' = "init_app_info"
         ELSE \* a reading thread was not spawned or panicked (lines 402-431)
              /\ caches' = PieceCachesState_default
              /\ scan_errors_left' = scan_errors_left - 1
              /\ pc' = return_to
    /\ UNCHANGED <<disk, heap, last_segment_index, init_last_segment_index,
                   piece_indices_to_store, downloading_pieces, downloaded_pieces_count,
                   pieces_to_download_total, stepVars, nodeVars, reader, replaces_left,
                   read_errors_left, reliable, callerVars, plotVars, observing,
                   linkVars, noteVars>>

\* Mutant of PublishedOnError: nothing is published.
PublishedOnError_Nothing(scanned, published) == published

\* initialize, lines 455-464: what a failed farmer_app_info leaves published
\* (*self.piece_caches.write().await = caches)
PublishedOnError(scanned, published) == scanned

\* initialize, lines 438-553: ask the node for its head, rebuild the heap,
\* free what is stored but not wanted, publish, start the downloads.
InitializeAppInfo ==
    /\ pc = "init_app_info"
    /\ \/ \* farmer_app_info failed: publish what the scan found and return
          /\ ~reliable
          /\ piece_caches' = PublishedOnError(caches, piece_caches)
          /\ pc' = init_return
          /\ ResetInit
          /\ UNCHANGED <<heap, init_return, progress>>
       \/ \* the node is syncing and knows no segment yet: sleep and ask again
          /\ node_head = 0
          /\ UNCHANGED <<piece_caches, pc, heap, initVars, progress>>
       \/ LET limit == total_capacity(caches)
              new_heap == HeapRebuild(limit, node_head)
              wanted == [k \in {ToRecordKey(p) : p \in new_heap.keys} |->
                            CHOOSE p \in new_heap.keys : ToRecordKey(p) = k]
          IN \E freed \in free_unneeded_stored_pieces(caches, wanted) :
               LET sorted == SortedSeq(MapValues(freed.to_store))
               IN /\ heap' = new_heap
                  /\ caches' = freed.state
                  /\ piece_caches' = freed.state
                  /\ init_last_segment_index' = node_head
                  /\ pieces_to_download_total' = Len(sorted)
                  /\ downloading_pieces' = SeqToSet(Take(sorted, CONCURRENT_PIECES_TO_DOWNLOAD))
                  /\ piece_indices_to_store' = Drop(sorted, CONCURRENT_PIECES_TO_DOWNLOAD)
                  /\ downloaded_pieces_count' = 0
                  /\ pc' = IF sorted = << >> THEN "init_finish" ELSE "init_download"
                  /\ Deliver(<<ProgressStart>>)
                  /\ UNCHANGED init_return
    /\ UNCHANGED <<disk, last_segment_index, channel, stepVars, nodeVars, reader, fixedVars>>

\* Mutant of AfterFailedWrite: the key is recorded all the same.
AfterFailedWrite_Pushed(state, pushed) == pushed

\* The Cache State after write_piece failed (lines 578-591, 850-857 and
\* 892-899): the error is logged and push_stored_piece is not reached
AfterFailedWrite(state, pushed) == state

\* What the download loop does with one piece the getter returned (lines
\* 567-606): the possible results [caches, disk, stored, full].
StoreDownloaded(cs, d, piece_index) ==
    UNION {
      IF popped.offset = None
      THEN {[caches |-> popped.state, disk |-> d, stored |-> FALSE, full |-> TRUE]}
      ELSE LET offset == popped.offset[1]
               backend == get_backend(popped.state, offset.cache_index)
               pushed == push_stored_piece(popped.state, ToRecordKey(piece_index), offset).state
           IN IF backend = None
              THEN {[caches |-> pushed, disk |-> d, stored |-> TRUE, full |-> FALSE]}
              ELSE {\* write_piece failed: the offset is dropped
                    [caches |-> AfterFailedWrite(popped.state, pushed), disk |-> d,
                     stored |-> FALSE, full |-> FALSE] :
                        failed \in Failures}
                   \cup
                   {[caches |-> pushed,
                     disk |-> write_piece(d, backend[1].backend, offset.piece_offset, piece_index),
                     stored |-> TRUE, full |-> FALSE]}
      : popped \in pop_free_offset(cs)}

\* Whether the download loop publishes after the count-th stored piece (lines 596-603)
IntermediateUpdate(count, total) ==
    count # total /\ count % INTERMEDIATE_CACHE_UPDATE_INTERVAL = 0

\* initialize, lines 557-607: one turn of the download loop
InitializeDownload ==
    /\ pc = "init_download"
    /\ \E piece_index \in downloading_pieces, got \in {TRUE} \cup Failures :
         LET more == piece_indices_to_store # << >>
             in_flight == (downloading_pieces \ {piece_index}) \cup
                              (IF more THEN {Head(piece_indices_to_store)} ELSE {})
         IN /\ piece_indices_to_store' = IF more THEN Tail(piece_indices_to_store) ELSE << >>
            /\ downloading_pieces' = in_flight
            /\ IF ~got
               THEN /\ pc' = IF in_flight = {} THEN "init_finish" ELSE "init_download"
                    /\ UNCHANGED <<caches, disk, piece_caches, downloaded_pieces_count,
                                   progress>>
               ELSE \E r \in StoreDownloaded(caches, disk, piece_index) :
                      /\ caches' = r.caches
                      /\ disk' = r.disk
                      /\ pc' = IF r.full \/ in_flight = {} THEN "init_finish" ELSE "init_download"
                      /\ downloaded_pieces_count' =
                             downloaded_pieces_count + (IF r.stored THEN 1 ELSE 0)
                      /\ piece_caches' =
                             IF r.stored /\ IntermediateUpdate(downloaded_pieces_count + 1,
                                                               pieces_to_download_total)
                             THEN r.caches ELSE piece_caches
                      /\ Deliver(IF DeliversProgress(r.stored, downloaded_pieces_count + 1,
                                                     pieces_to_download_total)
                                 THEN <<Progress(downloaded_pieces_count + 1,
                                                 pieces_to_download_total)>>
                                 ELSE << >>)
    /\ UNCHANGED <<heap, last_segment_index, channel, init_last_segment_index,
                   pieces_to_download_total, init_return, stepVars, nodeVars, reader,
                   fixedVars>>

\* initialize, lines 609-613: the final publication
InitializeFinish ==
    /\ pc = "init_finish"
    /\ piece_caches' = caches
    /\ last_segment_index' = init_last_segment_index
    /\ pc' = init_return
    /\ Deliver(<<ProgressDone>>)
    /\ ResetInit
    /\ UNCHANGED <<disk, heap, channel, init_return, stepVars, nodeVars, reader, fixedVars>>


\* persist_piece_in_cache (lines 813-914): the possible results
\* [caches, heap, disk, wrote].
persist_piece_in_cache(cs, h, d, piece_index) ==
    LET record_key == ToRecordKey(piece_index)
        inserted == HeapInsert(h, piece_index)
        Store(state, offset) ==
            LET backend == get_backend(state, offset.cache_index)
            IN IF backend = None
               THEN {[caches |-> state, heap |-> inserted.heap, disk |-> d, wrote |-> FALSE]}
               ELSE {[caches |-> AfterFailedWrite(state,
                                                  push_stored_piece(state, record_key,
                                                                    offset).state),
                      heap |-> inserted.heap, disk |-> d, wrote |-> FALSE] :
                         failed \in Failures}
                    \cup
                    {[caches |-> push_stored_piece(state, record_key, offset).state,
                      heap |-> inserted.heap,
                      disk |-> write_piece(d, backend[1].backend, offset.piece_offset,
                                           piece_index),
                      wrote |-> TRUE]}
    IN IF inserted.evicted # None
       THEN LET removed == remove_stored_piece(cs, ToRecordKey(inserted.evicted[1]))
            IN IF removed.offset = None
               THEN {[caches |-> cs, heap |-> inserted.heap, disk |-> d, wrote |-> FALSE]}
               ELSE Store(removed.state, removed.offset[1])
       ELSE UNION {
              IF popped.offset = None
              THEN {[caches |-> popped.state, heap |-> inserted.heap, disk |-> d,
                     wrote |-> FALSE]}
              ELSE Store(popped.state, popped.offset[1])
              : popped \in pop_free_offset(cs)}

\* Mutant of Subscribed: run enters its loop without keeping up.
Subscribed_Loop == "loop"

\* run, lines 199-203: once subscribed, run calls keep_up_after_initial_sync
Subscribed == "keep_up_app_info"

\* run, lines 190-197: subscribe to the archived segment headers
Subscribe ==
    /\ pc = "subscribe"
    /\ \/ /\ pc' = Subscribed
          /\ delivered' = node_head
       \/ /\ ~reliable
          /\ pc' = "exited"
          /\ UNCHANGED delivered
    /\ UNCHANGED <<cacheVars, last_segment_index, channel, initVars, stepVars, node_head,
                   acknowledged, reader, budgetVars>>

\* The first segment keep_up_after_initial_sync walks (line 770:
\* worker_state.last_segment_index..=last_segment_index)
KeepUpFirstSegment(last) == last

RECURSIVE PiecesOfSegments(_, _)
PiecesOfSegments(from, to) ==
    IF from > to THEN << >>
    ELSE segment_piece_indexes(from) \o PiecesOfSegments(from + 1, to)

\* Mutant of KeepUpAppInfoFailed: the worker stops.
KeepUpAppInfoFailed_Exits == "exited"

\* keep_up_after_initial_sync, lines 748-761: a failed farmer_app_info is
\* logged and keep-up returns, run goes on to its loop
KeepUpAppInfoFailed == "loop"

\* keep_up_after_initial_sync, lines 748-771
KeepUpAppInfo ==
    /\ pc = "keep_up_app_info"
    /\ \/ \* farmer_app_info failed
          /\ ~reliable
          /\ pc' = KeepUpAppInfoFailed
          /\ UNCHANGED stepVars
       \/ IF node_head <= last_segment_index
          THEN /\ pc' = "loop"
               /\ UNCHANGED stepVars
          ELSE /\ queue' = PiecesOfSegments(KeepUpFirstSegment(last_segment_index), node_head)
               /\ target_segment' = node_head
               /\ pc' = "keep_up"
    /\ UNCHANGED <<cacheVars, last_segment_index, channel, initVars, nodeVars, reader,
                   budgetVars>>

\* persist_piece_in_cache holds the write lock of piece_caches from line 822
\* until it returns, the write to the backend included: the positions of the
\* worker in which a try_read of another task finds the lock taken
WriteLocked == pc \in {"keep_up_persist", "segment_persist"}

\* Mutant of NeedsToBeCached: every piece is persisted.
NeedsToBeCached_Always(h, piece_index) == TRUE

\* keep_up_after_initial_sync, line 776, and process_segment_header, line
\* 702: the test that precedes the call of persist_piece_in_cache
NeedsToBeCached(h, piece_index) == HeapShouldIncludeKey(h, piece_index)

\* keep_up_after_initial_sync, lines 774-804: one piece
KeepUpPiece ==
    /\ pc \in {"keep_up", "keep_up_persist"}
    /\ pc' = "keep_up"
    /\ queue # << >>
    /\ queue' = Tail(queue)
    /\ LET piece_index == Head(queue)
       IN IF ~NeedsToBeCached(heap, piece_index)
          THEN UNCHANGED cacheVars
          ELSE \/ \* the piece getter found nothing or failed
                  /\ pc = "keep_up"
                  /\ Failures # {}
                  /\ UNCHANGED cacheVars
               \/ \E r \in persist_piece_in_cache(piece_caches, heap, disk, piece_index) :
                    /\ piece_caches' = r.caches
                    /\ heap' = r.heap
                    /\ disk' = r.disk
    /\ UNCHANGED <<last_segment_index, channel, initVars, target_segment, nodeVars,
                   reader, budgetVars>>

\* keep_up_after_initial_sync, lines 806-808
KeepUpFinish ==
    /\ pc = "keep_up"
    /\ queue = << >>
    /\ last_segment_index' = target_segment
    /\ pc' = "loop"
    /\ target_segment' = 0
    /\ UNCHANGED <<cacheVars, channel, initVars, queue, nodeVars, reader, budgetVars>>

\* PieceCache::read_piece_index of a slot, when the read succeeds
read_piece_index(d, backend, piece_offset) == d[backend][piece_offset]

\* Mutant of ForgetKeyHeap: an unreadable slot empties the heap.
ForgetKeyHeap_Emptied(h, maybe_piece_index) ==
    IF maybe_piece_index = None
    THEN [h EXCEPT !.keys = {}]
    ELSE HeapRemove(h, maybe_piece_index[1])

\* handle_command, lines 257-277: the heap after read_piece_index; the piece
\* index read is removed, and nothing is when the read gave none (Ok(None)
\* or Err)
ForgetKeyHeap(h, maybe_piece_index) ==
    IF maybe_piece_index = None THEN h ELSE HeapRemove(h, maybe_piece_index[1])

\* handle_command, WorkerCommand::ForgetKey (lines 242-279): the possible
\* results [caches, heap]; the read of the slot's piece index may fail.
ForgetKey(cs, h, d, key) ==
    LET removed == remove_stored_piece(cs, key)
    IN IF removed.offset = None
       THEN {[caches |-> cs, heap |-> h]}
       ELSE LET offset == removed.offset[1]
                backend == get_backend(removed.state, offset.cache_index)
            IN IF backend = None
               THEN {[caches |-> removed.state, heap |-> h]}
               ELSE LET freed == push_dangling_free_offset(removed.state, offset)
                        maybe_piece_index ==
                            read_piece_index(d, backend[1].backend, offset.piece_offset)
                    IN {\* Err(error)
                        [caches |-> freed, heap |-> ForgetKeyHeap(h, None)],
                        \* Ok(maybe_piece_index)
                        [caches |-> freed, heap |-> ForgetKeyHeap(h, maybe_piece_index)]}

ReplaceBackingCachesCommand(new_piece_caches) ==
    [type |-> "ReplaceBackingCaches", new_piece_caches |-> new_piece_caches, key |-> 0]
ForgetKeyCommand(key) ==
    [type |-> "ForgetKey", new_piece_caches |-> << >>, key |-> key]

\* run, lines 180-188: the first command
ReceiveFirst ==
    /\ pc = "recv_first"
    /\ channel # << >>
    /\ channel' = Tail(channel)
    /\ IF Head(channel).type = "ReplaceBackingCaches"
       THEN InitializeScan(Head(channel).new_piece_caches, "subscribe")
       ELSE /\ pc' = "exited"
            /\ UNCHANGED <<cacheVars, last_segment_index, initVars, stepVars, nodeVars,
                           reader, budgetVars>>

\* worker_receiver.recv() answers None: the channel is closed and empty
ChannelDrained == channel_closed /\ channel = << >>

\* segment_headers_notifications.next() answers None: the stream has ended
\* and every header sent was taken
StreamDrained == stream_ended /\ delivered = node_head

\* run, lines 180-188: the channel closes before a first command
ReceiveFirstClosed ==
    /\ pc = "recv_first"
    /\ ChannelDrained
    /\ pc' = "exited"
    /\ UNCHANGED <<cacheVars, last_segment_index, channel, initVars, stepVars, nodeVars,
                   reader, budgetVars>>

\* run, lines 205-225: the select! finds the channel closed (lines 208-211)
\* or the stream ended (lines 218-222)
LoopClosed ==
    /\ pc = "loop"
    /\ ChannelDrained \/ StreamDrained
    /\ pc' = "exited"
    /\ UNCHANGED <<cacheVars, last_segment_index, channel, initVars, stepVars, nodeVars,
                   reader, budgetVars>>

\* run, lines 207-214 and handle_command: a ReplaceBackingCaches command
HandleReplaceBackingCaches ==
    /\ pc = "loop"
    /\ channel # << >>
    /\ Head(channel).type = "ReplaceBackingCaches"
    /\ channel' = Tail(channel)
    /\ InitializeScan(Head(channel).new_piece_caches, "loop")

\* run, lines 207-214 and handle_command: a ForgetKey command
HandleForgetKey ==
    /\ pc = "loop"
    /\ channel # << >>
    /\ Head(channel).type = "ForgetKey"
    /\ channel' = Tail(channel)
    /\ \E r \in ForgetKey(piece_caches, heap, disk, Head(channel).key) :
         /\ piece_caches' = r.caches
         /\ heap' = r.heap
    /\ UNCHANGED <<disk, last_segment_index, pc, initVars, stepVars, nodeVars, reader,
                   budgetVars>>


\* Mutant of SegmentIsNew: the segment at last_segment_index is processed again.
SegmentIsNew_OrSame(last, segment_index) == last <= segment_index

\* process_segment_header, line 624:
\* worker_state.last_segment_index < segment_index
SegmentIsNew(last, segment_index) == last < segment_index

\* process_segment_header, lines 621-687 and 718-721: a segment header
\* arrives; the pieces worth keeping are fetched from the node, in the order
\* their futures complete.
ProcessSegmentHeader ==
    /\ pc = "loop"
    /\ delivered < node_head
    /\ delivered' = delivered + 1
    /\ LET segment_index == delivered + 1
           pieces == SeqToSet(segment_piece_indexes(segment_index))
       IN IF SegmentIsNew(last_segment_index, segment_index)
          THEN \E plot_wants \in SUBSET pieces, fetched \in Fetched(pieces) :
                 \E order \in Perms({p \in fetched :
                                       HeapShouldIncludeKey(heap, p) \/ p \in plot_wants}) :
                   /\ queue' = order
                   /\ target_segment' = segment_index
                   /\ pc' = "segment_acknowledge"
                   /\ UNCHANGED acknowledged
          ELSE /\ acknowledged' = [acknowledged EXCEPT ![segment_index] = @ + 1]
               /\ UNCHANGED <<pc, stepVars>>
    /\ UNCHANGED <<cacheVars, last_segment_index, channel, initVars, node_head, reader,
                   budgetVars>>

\* Mutant of SegmentAcknowledge: the pieces are persisted with the segment not
\* yet acknowledged.
SegmentAcknowledge_Later ==
    /\ pc = "segment_acknowledge"
    /\ pc' = "segment_pieces"
    /\ UNCHANGED <<cacheVars, last_segment_index, channel, initVars, stepVars, nodeVars,
                   reader, budgetVars>>

\* process_segment_header, lines 686-687
SegmentAcknowledge ==
    /\ pc = "segment_acknowledge"
    /\ acknowledged' = [acknowledged EXCEPT ![target_segment] = @ + 1]
    /\ pc' = "segment_pieces"
    /\ UNCHANGED <<cacheVars, last_segment_index, channel, initVars, stepVars, node_head,
                   delivered, reader, budgetVars>>

\* process_segment_header, lines 693-715: one collected piece
SegmentPiece ==
    /\ pc \in {"segment_pieces", "segment_persist"}
    /\ pc' = "segment_pieces"
    /\ queue # << >>
    /\ queue' = Tail(queue)
    /\ LET piece_index == Head(queue)
       IN IF ~NeedsToBeCached(heap, piece_index)
          THEN UNCHANGED cacheVars
          ELSE \E r \in persist_piece_in_cache(piece_caches, heap, disk, piece_index) :
                 /\ piece_caches' = r.caches
                 /\ heap' = r.heap
                 /\ disk' = r.disk
    /\ UNCHANGED <<last_segment_index, channel, initVars, target_segment, nodeVars,
                   reader, budgetVars>>

\* persist_piece_in_cache, line 822, called at line 802 or 714: the worker
\* has taken the write lock and the write to the backend is pending
PersistPieceLock ==
    /\ pc \in {"keep_up", "segment_pieces"}
    /\ queue # << >>
    /\ NeedsToBeCached(heap, Head(queue))
    /\ pc' = IF pc = "keep_up" THEN "keep_up_persist" ELSE "segment_persist"
    /\ UNCHANGED <<cacheVars, last_segment_index, channel, initVars, stepVars, nodeVars,
                   reader, budgetVars>>

\* process_segment_header, line 717
SegmentFinish ==
    /\ pc = "segment_pieces"
    /\ queue = << >>
    /\ last_segment_index' = target_segment
    /\ pc' = "loop"
    /\ target_segment' = 0
    /\ UNCHANGED <<cacheVars, channel, initVars, queue, nodeVars, reader, budgetVars>>

\* ---------------------------------------------------------- environment
\* The node archives one more segment.
NodeArchivesSegment ==
    /\ node_head < MaxSegment
    /\ ~stream_ended
    /\ node_head' = node_head + 1
    /\ UNCHANGED <<cacheVars, last_segment_index, channel, pc, initVars, stepVars, delivered,
                   acknowledged, reader, budgetVars>>

\* FarmerCache::replace_backing_caches (lines 1185-1199): the command is sent
ReplaceBackingCaches ==
    /\ replaces_left > 0
    /\ Len(channel) < MaxChannel
    /\ pc # "exited"
    /\ ~channel_closed
    /\ \E new_piece_caches \in CacheLists :
         channel' = Append(channel, ReplaceBackingCachesCommand(new_piece_caches))
    /\ replaces_left' = replaces_left - 1
    /\ UNCHANGED <<cacheVars, last_segment_index, pc, initVars, stepVars, nodeVars, reader,
                   read_errors_left, scan_errors_left, reliable, callerVars,
                   plotVars, observing, progress, linkVars, noteVars>>

\* FarmerCache::replace_backing_caches (lines 1185-1199) with no piece cache
ReplaceWithNoCaches ==
    /\ replaces_left > 0
    /\ Len(channel) < MaxChannel
    /\ pc # "exited"
    /\ ~channel_closed
    /\ channel' = Append(channel, ReplaceBackingCachesCommand(<< >>))
    /\ replaces_left' = replaces_left - 1
    /\ UNCHANGED <<cacheVars, last_segment_index, pc, initVars, stepVars, nodeVars, reader,
                   read_errors_left, scan_errors_left, reliable, callerVars,
                   plotVars, observing, progress, linkVars, noteVars>>

\* The last FarmerCache is dropped, and with it the last sender of commands.
DropFarmerCache ==
    /\ ~channel_closed
    /\ channel_closed' = TRUE
    /\ UNCHANGED <<cacheVars, last_segment_index, channel, pc, initVars, stepVars, nodeVars,
                   reader, replaces_left, read_errors_left, scan_errors_left, reliable,
                   callerVars, plotVars, observing, progress, stream_ended, noteVars>>

\* The node ends the stream of archived segment headers.
EndStream ==
    /\ ~stream_ended
    /\ stream_ended' = TRUE
    /\ UNCHANGED <<cacheVars, last_segment_index, channel, pc, initVars, stepVars, nodeVars,
                   reader, replaces_left, read_errors_left, scan_errors_left, reliable,
                   callerVars, plotVars, observing, progress, channel_closed, noteVars>>

\* FarmerCache::on_sync_progress (lines 1202-1204): a handler is registered
OnSyncProgress ==
    /\ ~observing
    /\ observing' = TRUE
    /\ UNCHANGED <<cacheVars, last_segment_index, channel, pc, initVars, stepVars, nodeVars,
                   reader, replaces_left, read_errors_left, scan_errors_left, reliable,
                   callerVars, plotVars, progress, linkVars, noteVars>>

\* --------------------------------------------------------------- reader
\* FarmerCache::get_piece, lines 1066-1079 and 1124-1137: the lookup under
\* the read lock; a key that is not found is looked for in the plot caches.
GetPieceLookup ==
    /\ reader.phase = "idle"
    /\ ~WriteLocked
    /\ \E key \in RecordKeys :
         LET found == get_stored_piece(piece_caches, key)
             backend == IF found = None THEN None
                        ELSE get_backend(piece_caches, found[1].cache_index)
         IN IF backend # None
            THEN reader' = [phase |-> "read", key |-> key,
                            backend |-> backend[1].backend,
                            cache_index |-> found[1].cache_index,
                            piece_offset |-> found[1].piece_offset,
                            returned |-> NotReturned]
            ELSE \E plot_piece \in BOOLEAN :
                   reader' = IdleReader(Returned(IF plot_piece THEN "plot_cache" ELSE "nothing",
                                                 0, TRUE, 0))
    /\ UNCHANGED <<cacheVars, last_segment_index, channel, pc, initVars, stepVars, nodeVars,
                   budgetVars>>

\* FarmerCache::get_piece, lines 1081-1107: the read from the backend
GetPieceRead ==
    /\ reader.phase = "read"
    /\ \/ \* Ok(maybe_piece)
          LET maybe_piece == disk[reader.backend][reader.piece_offset]
          IN /\ reader' = IdleReader(IF maybe_piece = None
                                     THEN Returned("nothing", 0, FALSE, 0)
                                     ELSE Returned("piece_cache", maybe_piece[1], FALSE, 0))
             /\ UNCHANGED <<read_errors_left, failed_read>>
       \/ \* Err(error)
          /\ read_errors_left > 0
          /\ read_errors_left' = read_errors_left - 1
          /\ reader' = [reader EXCEPT !.phase = "forget"]
          /\ failed_read' = IF failed_read.kept
                            THEN FailedRead(reader.key, reader.backend, reader.piece_offset)
                            ELSE failed_read
    /\ UNCHANGED <<cacheVars, last_segment_index, channel, pc, initVars, stepVars, nodeVars,
                   replaces_left, scan_errors_left, reliable, callerVars,
                   plotVars, observing, progress, linkVars>>

\* Mutant of GetPieceForget: after the failed read the plot caches are read
\* like for a key that was not found.
GetPieceForget_PlotCaches ==
    /\ reader.phase = "forget"
    /\ IF pc = "exited"
       THEN UNCHANGED channel
       ELSE /\ Len(channel) < MaxChannel
            /\ channel' = Append(channel, ForgetKeyCommand(reader.key))
    /\ \E plot_piece \in BOOLEAN :
         reader' = IdleReader(Returned(IF plot_piece THEN "plot_cache" ELSE "nothing",
                                       0, TRUE, 1))
    /\ UNCHANGED <<cacheVars, last_segment_index, pc, initVars, stepVars, nodeVars,
                   budgetVars>>

\* FarmerCache::get_piece, lines 1108-1120: ForgetKey is sent (the send
\* waits for room in the channel and fails once the worker is gone)
GetPieceForget ==
    /\ reader.phase = "forget"
    /\ IF pc = "exited"
       THEN UNCHANGED channel
       ELSE /\ Len(channel) < MaxChannel
            /\ channel' = Append(channel, ForgetKeyCommand(reader.key))
    /\ reader' = IdleReader(Returned("nothing", 0, FALSE, 1))
    /\ UNCHANGED <<cacheVars, last_segment_index, pc, initVars, stepVars, nodeVars,
                   budgetVars>>

\* What find_piece returned: the backend and the offset of the piece, or none.
Found(backend, piece_offset) ==
    [from |-> "find_piece", backend |-> backend, piece_offset |-> piece_offset]
NotFound == [from |-> "find_piece_none"]

\* FarmerCache::find_piece (lines 1140-1167), under the read lock
FindPiece ==
    /\ reader.phase = "idle"
    /\ ~WriteLocked
    /\ \E key \in RecordKeys :
         LET offset == get_stored_piece(piece_caches, key)
             backend == IF offset = None THEN None
                        ELSE get_backend(piece_caches, offset[1].cache_index)
         IN reader' = IdleReader(IF backend # None
                                 THEN Found(backend[1].backend, offset[1].piece_offset)
                                 ELSE NotFound)
    /\ UNCHANGED <<cacheVars, last_segment_index, channel, pc, initVars, stepVars, nodeVars,
                   budgetVars>>

\* What record returned for a key: a provider record or none; whether the
\* lock of piece_caches was obtained; whether the plot caches were probed.
Provided(key, plot) == [from |-> "record", key |-> key, read |-> TRUE, plot |-> plot]
NotProvided(key, read, plot) ==
    [from |-> "record_none", key |-> key, read |-> read, plot |-> plot]

\* Mutant of record_outcomes: record waits for the read lock.
record_outcomes_Waiting(cs, locked, key) ==
    IF locked THEN {}
    ELSE IF contains_stored_piece(cs, key) THEN {Provided(key, FALSE)}
    ELSE {NotProvided(key, TRUE, FALSE), NotProvided(key, TRUE, TRUE), Provided(key, TRUE)}

\* LocalRecordProvider::record (lines 1213-1263): try_read of piece_caches
\* fails when the write lock is taken; a key that is not stored is looked
\* for in the plot caches, whose try_read may fail as well and whose answer
\* may be Yes, something else or late.
record_outcomes(cs, locked, key) ==
    IF locked THEN {NotProvided(key, FALSE, FALSE)}
    ELSE IF contains_stored_piece(cs, key) THEN {Provided(key, FALSE)}
    ELSE {NotProvided(key, TRUE, FALSE), NotProvided(key, TRUE, TRUE), Provided(key, TRUE)}

Record ==
    /\ reader.phase = "idle"
    /\ \E key \in RecordKeys :
         \E returned \in record_outcomes(piece_caches, WriteLocked, key) :
           reader' = IdleReader(returned)
    /\ UNCHANGED <<cacheVars, last_segment_index, channel, pc, initVars, stepVars, nodeVars,
                   budgetVars>>

\* ------------------------------------------ a caller of PieceCachesState
\* One call: its name, its arguments, the state it was made on, what it
\* returned besides the state.
Call(name, key, desired, before, returned) ==
    [name |-> name, key |-> key, desired |-> desired, before |-> before,
     returned |-> returned]

\* the last OpsKept calls, the latest last
Remember(call) ==
    ops' = IF Len(ops) < OpsKept THEN Append(ops, call) ELSE Append(Tail(ops), call)

\* PieceCachesState::new (lines 23-33) over empty backends
StateNew ==
    /\ caches.backends = << >>
    /\ \E new_piece_caches \in CacheLists :
         caches' = PieceCachesState_new(
                     EmptyMap, << >>,
                     [i \in DOMAIN new_piece_caches |->
                        CacheBackend_new(new_piece_caches[i], Capacity[new_piece_caches[i]])])
    /\ Remember(Call("new", 0, EmptyMap, caches, None))
    /\ UNCHANGED <<cacheVars, last_segment_index, channel, pc, init_last_segment_index,
                   piece_indices_to_store, downloading_pieces, downloaded_pieces_count,
                   pieces_to_download_total, init_return, stepVars, nodeVars, reader,
                   replaces_left, read_errors_left, scan_errors_left, reliable, held,
                   plotVars, observing, progress, linkVars, noteVars>>

\* what every call of the caller leaves alone
CallerFrame ==
    UNCHANGED <<cacheVars, last_segment_index, channel, pc, init_last_segment_index,
                piece_indices_to_store, downloading_pieces, downloaded_pieces_count,
                pieces_to_download_total, init_return, stepVars, nodeVars, reader,
                replaces_left, read_errors_left, scan_errors_left, reliable, plotVars,
                observing, progress, linkVars, noteVars>>

\* pop_free_offset (lines 40-68): the caller holds the offset it got
StatePop ==
    /\ caches.backends # << >>
    /\ held = None
    /\ \E r \in pop_free_offset(caches) :
         /\ caches' = r.state
         /\ held' = r.offset
         /\ Remember(Call("pop_free_offset", 0, EmptyMap, caches, r.offset))
    /\ CallerFrame

\* push_stored_piece (lines 81-87) of the offset held: the caller holds the
\* previous offset of the key, if any
StatePush ==
    /\ held # None
    /\ \E key \in RecordKeys :
         LET r == push_stored_piece(caches, key, held[1])
         IN /\ caches' = r.state
            /\ held' = r.previous
            /\ Remember(Call("push_stored_piece", key, EmptyMap, caches, r.previous))
    /\ CallerFrame

\* remove_stored_piece (lines 95-100): the caller holds the offset removed
StateRemove ==
    /\ held = None
    /\ \E key \in RecordKeys :
         LET r == remove_stored_piece(caches, key)
         IN /\ caches' = r.state
            /\ held' = r.offset
            /\ Remember(Call("remove_stored_piece", key, EmptyMap, caches, r.offset))
    /\ CallerFrame

\* push_dangling_free_offset (lines 115-118) of the offset held
StatePushDangling ==
    /\ held # None
    /\ caches' = push_dangling_free_offset(caches, held[1])
    /\ held' = None
    /\ Remember(Call("push_dangling_free_offset", 0, EmptyMap, caches, held))
    /\ CallerFrame

\* piece_indices_to_store as initialize builds it (lines 486-492): the map
\* record key -> piece index of the pieces a heap of some limit holds
PieceMaps ==
    {LET S == HeapRebuild(limit, last).keys
     IN [k \in {ToRecordKey(p) : p \in S} |-> CHOOSE p \in S : ToRecordKey(p) = k] :
       limit \in 0..(Capacity[1] + Capacity[2]), last \in SegmentIndexes}

\* free_unneeded_stored_pieces (lines 102-113)
StateFree ==
    /\ caches.backends # << >>
    /\ held = None
    /\ \E desired \in PieceMaps :
         \E r \in free_unneeded_stored_pieces(caches, desired) :
           /\ caches' = r.state
           /\ Remember(Call("free_unneeded_stored_pieces", 0, desired, caches, r.to_store))
    /\ UNCHANGED held
    /\ CallerFrame

\* ------------------------------------------------------------ PlotCaches
\* what a plot cache answers to try_store_piece
TryStoreAnswers == {"Ok(true)", "Ok(false)", "Err"}

\* what store_additional_piece returns when a plot cache gave the answer
\* that ends its loop (line 968), or "none" when the loop ran out (line 985)
store_additional_piece_returns(answer) == FALSE

\* PlotCaches::store_additional_piece, lines 955-956: the plot caches are
\* read, plot_caches_len turns are to come; the answers are those the plot
\* caches will give, the i-th being that of plot_caches[i - 1]
StoreAdditionalPiece ==
    /\ plot_call.turns = 0
    /\ \E plot_caches_len \in 0..MaxPlotCaches :
         \E answers \in [1..plot_caches_len -> TryStoreAnswers] :
           plot_call' = PlotCall(answers, plot_caches_len, << >>,
                                 IF plot_caches_len = 0
                                 THEN Some(store_additional_piece_returns("none"))
                                 ELSE None)
    /\ UNCHANGED <<cacheVars, last_segment_index, channel, pc, initVars, stepVars, nodeVars,
                   reader, replaces_left, read_errors_left, scan_errors_left, reliable,
                   callerVars, next_plot_cache, observing, progress, linkVars, noteVars>>

\* PlotCaches::store_additional_piece, lines 959-982: one turn of the loop
StoreAdditionalPieceTurn ==
    /\ plot_call.turns > 0
    /\ next_plot_cache < MaxFetchAdds
    /\ next_plot_cache' = next_plot_cache + 1
    /\ LET plot_caches_len == Len(plot_call.answers)
           plot_cache_index == next_plot_cache % plot_caches_len
           answer == plot_call.answers[plot_cache_index + 1]
           tried == Append(plot_call.tried, plot_cache_index)
       IN plot_call' =
            IF answer = "Ok(true)"
            THEN PlotCall(plot_call.answers, 0, tried,
                          Some(store_additional_piece_returns(answer)))
            ELSE PlotCall(plot_call.answers, plot_call.turns - 1, tried,
                          IF plot_call.turns = 1
                          THEN Some(store_additional_piece_returns("none"))
                          ELSE None)
    /\ UNCHANGED <<cacheVars, last_segment_index, channel, pc, initVars, stepVars, nodeVars,
                   reader, replaces_left, read_errors_left, scan_errors_left, reliable,
                   callerVars, observing, progress, linkVars, noteVars>>

\* A turn of another store_additional_piece call running at the same time
\* (maybe_store_additional_piece, lines 1170-1182, is called from other
\* tasks): the shared counter moves on (line 961)
OtherStoreAdditionalPieceTurn ==
    /\ next_plot_cache < MaxFetchAdds
    /\ next_plot_cache' = next_plot_cache + 1
    /\ UNCHANGED <<cacheVars, last_segment_index, channel, pc, initVars, stepVars, nodeVars,
                   reader, replaces_left, read_errors_left, scan_errors_left, reliable,
                   callerVars, plot_call, observing, progress, linkVars, noteVars>>

Worker ==
    \/ ReceiveFirst
    \/ InitializeAppInfo
    \/ InitializeDownload
    \/ InitializeFinish
    \/ Subscribe
    \/ KeepUpAppInfo
    \/ KeepUpPiece
    \/ KeepUpFinish
    \/ HandleReplaceBackingCaches
    \/ ProcessSegmentHeader
    \/ SegmentAcknowledge
    \/ SegmentPiece
    \/ SegmentFinish

Environment ==
    \/ NodeArchivesSegment
    \/ ReplaceBackingCaches

GetPiece ==
    \/ GetPieceLookup
    \/ GetPieceRead
    \/ GetPieceForget

Lookups ==
    \/ GetPieceLookup
    \/ GetPieceRead
    \/ FindPiece
    \/ Record

NextState == StateNew \/ StatePop \/ StatePush \/ StateRemove \/ StatePushDangling \/ StateFree

NextPlot == StoreAdditionalPiece \/ StoreAdditionalPieceTurn \/ OtherStoreAdditionalPieceTurn

NextWorker == Worker \/ Environment
NextProgress == Worker \/ Environment \/ OnSyncProgress
NextRun == Worker \/ ReceiveFirstClosed \/ LoopClosed \/ Environment \/ DropFarmerCache
              \/ EndStream
NextLookups == Worker \/ PersistPieceLock \/ Environment \/ ReplaceWithNoCaches \/ Lookups
Next == Worker \/ HandleForgetKey \/ Environment \/ GetPiece

\* The worker and its environment.
Spec == Init /\ [][NextWorker]_vars

\* The worker, its environment and a reader.
SpecReader == InitReader /\ [][Next]_vars

\* The worker, its environment and a reader whose failed reads are traced.
SpecForget == InitForget /\ [][Next]_vars

\* The worker with every node call, fetch, scan and write succeeding.
SpecReliable == InitReliable /\ [][NextWorker]_vars

\* The worker, its environment and a handler of sync progress.
SpecProgress == InitProgress /\ [][NextProgress]_vars

\* The worker until it returns: its environment may drop the FarmerCache and
\* end the notifications.
SpecRun == Init /\ [][NextRun]_vars

\* The plot caches under store_additional_piece calls.
SpecPlot == InitState /\ [][NextPlot]_vars

\* A PieceCachesState under the calls of its callers.
SpecState == InitState /\ [][NextState]_vars

\* The worker, lists of piece caches that may be empty, and a task that
\* looks keys up with get_piece, find_piece and record.
SpecLookups == InitLookups /\ [][NextLookups]_vars

\* ------------------------------------------------------------ properties

InitPositions == {"init_app_info", "init_download", "init_finish"}

\* the worker is between two operations: not inside initialize
BetweenOperations == pc \notin InitPositions

StoredKeys(cs) == DOMAIN cs.stored_pieces
StoredOffsets(cs) == MapValues(cs.stored_pieces)
DanglingOffsets(cs) == SeqToSet(cs.dangling_free_offsets)
HeapKeys(h) == {ToRecordKey(p) : p \in h.keys}
PieceOf(key) == CHOOSE p \in PieceIndexes : ToRecordKey(p) = key
Min(a, b) == IF a < b THEN a ELSE b

\* an offset of `cs` whose slot neither holds a stored piece nor is queued as free
LeakedSlots(cs) ==
    {o \in {FarmerCacheOffset(c, n) : c \in DOMAIN cs.backends, n \in 0..(MaxCapacity - 1)} :
       /\ o.piece_offset < cs.backends[o.cache_index].used_capacity
       /\ o \notin StoredOffsets(cs)
       /\ o \notin DanglingOffsets(cs)}

\* C1 as the specification states it: after every completed worker operation
\* the stored pieces and the dangling free offsets together number exactly
\* the used capacity of the backends.
C1_Original ==
    BetweenOperations =>
        Cardinality(StoredKeys(piece_caches)) + Len(piece_caches.dangling_free_offsets)
            = SumUsed(piece_caches.backends, 1)

\* C1, amended: after every completed worker operation the stored pieces and
\* the dangling free offsets together number at most the used capacity of the
\* backends; a slot whose write failed, or whose key was stored again at
\* another offset, is counted as used and is neither stored nor dangling.
C1_AtMostUsed ==
    BetweenOperations =>
        Cardinality(StoredKeys(piece_caches)) + Len(piece_caches.dangling_free_offsets)
            <= SumUsed(piece_caches.backends, 1)

\* C1: pieces are stored, an offset is dangling and one used slot is neither
C1_Witness ==
    /\ pc = "loop"
    /\ StoredKeys(piece_caches) # {}
    /\ piece_caches.dangling_free_offsets # << >>
    /\ LeakedSlots(piece_caches) # {}

StoredInHeap(cs, h) == StoredKeys(cs) \subseteq HeapKeys(h)

\* C2 as the specification states it: after every completed worker operation
\* a record key is stored if and only if its piece index is in the heap.
C2_Original == BetweenOperations => StoredKeys(piece_caches) = HeapKeys(heap)

\* C2, amended: an initialization that runs to its end leaves every stored
\* key's piece index in the heap, and every later operation of the worker
\* keeps it so; the heap may hold piece indexes that are not stored.
C2_StoredInHeap ==
    [][/\ pc = "init_finish" => StoredInHeap(piece_caches', heap')
       /\ (BetweenOperations /\ BetweenOperations' /\ StoredInHeap(piece_caches, heap))
              => StoredInHeap(piece_caches', heap')]_vars

\* C2: between operations, stored keys all in the heap, and a heap entry
\* that is not stored
C2_Witness ==
    /\ pc = "loop"
    /\ StoredKeys(piece_caches) # {}
    /\ StoredInHeap(piece_caches, heap)
    /\ HeapKeys(heap) \ StoredKeys(piece_caches) # {}

NoOffsetStoredAndDangling(cs) == StoredOffsets(cs) \cap DanglingOffsets(cs) = {}

\* C3: no offset is at once the value of a stored piece and a dangling free
\* offset, in the published state and in the state initialize builds.
C3_Disjoint ==
    /\ NoOffsetStoredAndDangling(piece_caches)
    /\ NoOffsetStoredAndDangling(caches)

\* C3: the published state has stored pieces and dangling free offsets
C3_Witness ==
    /\ StoredOffsets(piece_caches) # {}
    /\ DanglingOffsets(piece_caches) # {}
    /\ pc = "loop"
    /\ replaces_left = 0

OffsetInUsedRange(cs, offset) ==
    /\ offset.cache_index \in DOMAIN cs.backends
    /\ offset.piece_offset < cs.backends[offset.cache_index].used_capacity

OffsetsInUsedRange(cs) ==
    \A offset \in StoredOffsets(cs) \cup DanglingOffsets(cs) : OffsetInUsedRange(cs, offset)

\* C4: every offset of a stored piece and every dangling free offset has a
\* piece_offset below the used_capacity of the backend it names.
C4_InUsedRange ==
    /\ OffsetsInUsedRange(piece_caches)
    /\ OffsetsInUsedRange(caches)

\* C4: a backend is full, and both a stored piece and a dangling offset
\* lie in it
C4_Witness ==
    \E i \in DOMAIN piece_caches.backends :
      /\ piece_caches.backends[i].used_capacity = piece_caches.backends[i].total_capacity
      /\ \E o \in StoredOffsets(piece_caches) : o.cache_index = i
      /\ \E o \in DanglingOffsets(piece_caches) : o.cache_index = i

BackendWithinCapacity(b) ==
    LET r == next_free(b)
    IN /\ b.used_capacity <= b.total_capacity
       /\ r.backend.used_capacity >= b.used_capacity
       /\ r.offset # None =>
            /\ r.offset = Some(b.used_capacity)
            /\ r.backend.used_capacity = b.used_capacity + 1
       /\ r.offset = None => r.backend = b
       /\ b.used_capacity = b.total_capacity => r.offset = None

\* C5: a backend's used_capacity never exceeds its total_capacity; next_free
\* never decreases used_capacity, increases it by exactly one when it returns
\* an offset, and returns nothing when the backend is full.
C5_WithinCapacity ==
    /\ \A i \in DOMAIN piece_caches.backends : BackendWithinCapacity(piece_caches.backends[i])
    /\ \A i \in DOMAIN caches.backends : BackendWithinCapacity(caches.backends[i])

\* C5: next_free filled one backend of an empty piece cache and half of another
C5_Witness ==
    /\ pc = "loop"
    /\ \E i, j \in DOMAIN piece_caches.backends :
         /\ piece_caches.backends[i].used_capacity = piece_caches.backends[i].total_capacity
         /\ piece_caches.backends[j].used_capacity > 0
         /\ piece_caches.backends[j].used_capacity < piece_caches.backends[j].total_capacity
    /\ Cardinality(StoredKeys(piece_caches)) = SumUsed(piece_caches.backends, 1)

\* C6: process_segment_header of a segment above last_segment_index collects
\* the pieces without writing, acknowledges the segment, and only then stores
\* the collected pieces (plot cache first, then persist_piece_in_cache).
C6_AckBeforeWrites ==
    [][/\ (pc = "loop" /\ pc' = "segment_acknowledge")
            => /\ target_segment' > last_segment_index
               /\ acknowledged[target_segment'] = 0
               /\ UNCHANGED <<disk, piece_caches, heap>>
       /\ pc = "segment_acknowledge" => UNCHANGED <<disk, piece_caches, heap>>
       /\ (pc = "segment_pieces" /\ queue' # queue) => acknowledged[target_segment] = 1]_vars

\* C6: a piece of the segment is stored while the segment is processed, the
\* segment acknowledged
C6_Witness ==
    /\ pc = "segment_pieces"
    /\ acknowledged[target_segment] = 1
    /\ \E i \in 1..PiecesPerSegment :
         LET piece_index == segment_piece_indexes(target_segment)[i]
             offset == get_stored_piece(piece_caches, ToRecordKey(piece_index))
         IN /\ offset # None
            /\ disk[piece_caches.backends[offset[1].cache_index].backend][offset[1].piece_offset]
                 = Some(piece_index)

\* the slot the published state names for `key` holds that key's piece
PublishedSlotHolds(key) ==
    LET offset == piece_caches.stored_pieces[key]
    IN /\ offset.cache_index \in DOMAIN piece_caches.backends
       /\ disk[piece_caches.backends[offset.cache_index].backend][offset.piece_offset]
            = Some(PieceOf(key))

\* the keys written to a slot and not removed since, as the worker knows them:
\* inside initialize they are in the state it builds, not yet published
WorkerStoredKeys ==
    IF pc \in InitPositions THEN StoredKeys(caches) ELSE StoredKeys(piece_caches)

\* C7 as the specification states it: at every moment, also inside
\* initialize, get_piece finds a key in the piece caches if and only if the
\* key was written and not removed since.
C7_Original == StoredKeys(piece_caches) = WorkerStoredKeys

\* C7, amended: get_piece finds a key in the piece caches only if the slot
\* it reads holds that key's piece, written and not removed since; while
\* initialize scans and downloads, keys that are written and not removed are
\* not found until the state is published.
C7_FoundIsWritten ==
    /\ \A key \in StoredKeys(piece_caches) : PublishedSlotHolds(key)
    /\ StoredKeys(piece_caches) \subseteq WorkerStoredKeys
    /\ pc = "init_app_info" => StoredKeys(piece_caches) = {}
    /\ reader.phase = "read" => disk[reader.backend][reader.piece_offset] # None
    /\ reader.returned.from = "piece_cache" => reader.returned.piece_index \in PieceIndexes

\* C7: get_piece returned a piece of the piece caches while initialize
\* downloads pieces that are written and not yet published
C7_Witness ==
    /\ pc = "init_download"
    /\ reader.returned.from = "piece_cache"
    /\ StoredKeys(piece_caches) # {}
    /\ StoredKeys(caches) \ StoredKeys(piece_caches) # {}

\* a step that handles the ForgetKey command of a stored key
ForgetsStoredKey ==
    /\ pc = "loop"
    /\ channel # << >>
    /\ Head(channel).type = "ForgetKey"
    /\ channel' = Tail(channel)
    /\ Head(channel).key \in StoredKeys(piece_caches)

\* C8 as the specification states it: after a ForgetKey command of a stored
\* key the key is not stored, its offset is dangling and the heap does not
\* hold its piece index.
C8_Original ==
    [][ForgetsStoredKey =>
         LET key == Head(channel).key
         IN /\ key \notin StoredKeys(piece_caches')
            /\ piece_caches.stored_pieces[key] \in DanglingOffsets(piece_caches')
            /\ PieceOf(key) \notin heap'.keys]_vars

\* C8, amended: after a ForgetKey command of a stored key the key is not
\* stored and its offset is the last dangling free offset; the heap has lost
\* the key's piece index, or, the slot's piece index not read, is unchanged.
C8_Forgotten ==
    [][ForgetsStoredKey =>
         LET key == Head(channel).key
         IN /\ piece_caches'.stored_pieces = MapRemove(piece_caches.stored_pieces, key)
            /\ piece_caches'.dangling_free_offsets =
                 Append(piece_caches.dangling_free_offsets, piece_caches.stored_pieces[key])
            /\ piece_caches'.backends = piece_caches.backends
            /\ \/ heap' = HeapRemove(heap, PieceOf(key))
               \/ heap' = heap]_vars

\* C8: a ForgetKey command was handled: a slot of a piece that is neither
\* stored nor in the heap is dangling
C8_Witness ==
    /\ pc = "loop"
    /\ read_errors_left = 0
    /\ reader.returned.sent = 1
    /\ channel = << >>
    /\ \E offset \in DanglingOffsets(piece_caches) :
         LET slot == disk[piece_caches.backends[offset.cache_index].backend][offset.piece_offset]
         IN /\ slot # None
            /\ slot[1] \notin heap.keys
            /\ ToRecordKey(slot[1]) \notin StoredKeys(piece_caches)
            /\ slot[1] \in SeqToSet(PiecesUpTo(last_segment_index))

\* C9: get_piece of a stored key whose read_piece fails returns nothing, does
\* not read the plot caches, sends one ForgetKey command of the key, and
\* leaves the cache state as it is.
C9_ReadFailure ==
    [][/\ (reader.phase = "read" /\ reader'.phase = "forget")
            => /\ reader'.key = reader.key
               /\ UNCHANGED <<piece_caches, heap, disk, channel>>
       /\ (reader.phase = "forget" /\ reader' # reader)
            => /\ reader' = IdleReader(Returned("nothing", 0, FALSE, 1))
               /\ pc # "exited" => channel' = Append(channel, ForgetKeyCommand(reader.key))
               /\ pc = "exited" => channel' = channel
               /\ UNCHANGED <<piece_caches, heap, disk>>]_vars

\* C9: get_piece returned after a failed read, its ForgetKey command waiting
C9_Witness ==
    /\ reader.phase = "idle"
    /\ reader.returned = Returned("nothing", 0, FALSE, 1)
    /\ \E i \in DOMAIN channel : channel[i].type = "ForgetKey"
    /\ read_errors_left = 0

\* C10: an initialization that runs to its end with backends of capacity C,
\* the node's head implying N pieces, publishes at most min(N, C) stored pieces.
C10_AtMostWanted ==
    [][pc = "init_finish" =>
         Cardinality(StoredKeys(piece_caches'))
            <= Min((init_last_segment_index + 1) * PiecesPerSegment,
                   total_capacity(piece_caches'))]_vars

\* C10: the first initialization has ended with the caches full, the head
\* implying more pieces than fit
C10_Witness ==
    /\ pc = "subscribe"
    /\ last_segment_index = MaxSegment
    /\ total_capacity(piece_caches) > 0
    /\ Cardinality(StoredKeys(piece_caches)) = total_capacity(piece_caches)
    /\ (last_segment_index + 1) * PiecesPerSegment > total_capacity(piece_caches)

\* the n pieces of segments 0..=last closest to the peer identity
ClosestPieces(last, n) ==
    LET requested == SeqToSet(PiecesUpTo(last))
    IN CHOOSE T \in SUBSET requested :
         /\ Cardinality(T) = Min(n, Cardinality(requested))
         /\ \A t \in T, u \in requested \ T : Distance(t) < Distance(u)

\* the pieces of segments 0..=head outnumber the capacity of the backends
\* that initialize was given
DownloadSetExceedsCapacity ==
    /\ total_capacity(caches) > 0
    /\ (init_last_segment_index + 1) * PiecesPerSegment > total_capacity(caches)

\* C11: with every fetch and every write succeeding and more pieces in
\* segments 0..=head than the backends hold, initialize ends with exactly
\* `capacity` stored pieces, the `capacity` closest to the peer identity.
C11_ClosestStored ==
    (pc = "init_finish" /\ DownloadSetExceedsCapacity) =>
        StoredKeys(caches) =
            {ToRecordKey(p) :
               p \in ClosestPieces(init_last_segment_index, total_capacity(caches))}

\* a step of keep-up or of process_segment_header that persists a piece
\* whose record key is stored
PersistsStoredKey ==
    /\ pc \in {"keep_up", "segment_pieces"}
    /\ queue # << >>
    /\ queue' = Tail(queue)
    /\ ToRecordKey(Head(queue)) \in StoredKeys(piece_caches)
    /\ <<piece_caches, disk>>' # <<piece_caches, disk>>

\* C13: persisting a piece whose record key is stored leaves one entry of
\* the key, does not raise the sum of used_capacity, and an offset the key
\* held before and holds no more is a dangling free offset afterwards.
C13_Recycled ==
    [][PersistsStoredKey =>
         LET key == ToRecordKey(Head(queue))
             previous == piece_caches.stored_pieces[key]
         IN /\ key \in StoredKeys(piece_caches')
            /\ SumUsed(piece_caches'.backends, 1) <= SumUsed(piece_caches.backends, 1)
            /\ piece_caches'.stored_pieces[key] # previous
                 => previous \in DanglingOffsets(piece_caches')]_vars

\* the backends of a cache state, as replace_backing_caches names them
BackendsOf(cs) == [i \in DOMAIN cs.backends |-> cs.backends[i].backend]

\* the worker starts an initialization with the backends it has, the node's
\* head being the one the worker has reached
ReinitializesSame ==
    /\ pc = "loop"
    /\ channel # << >>
    /\ Head(channel).type = "ReplaceBackingCaches"
    /\ Head(channel).new_piece_caches = BackendsOf(piece_caches)
    /\ node_head = last_segment_index
    /\ pc' = "init_app_info"

\* C12: an initialization with the backends and the node head of the one
\* before finds stored every piece it wants, so that it fetches none, and
\* keeps stored_pieces as it was: the same keys at the same offsets.
C12_SecondPassIdentical ==
    [][ReinitializesSame =>
         LET wanted == HeapKeys(HeapRebuild(total_capacity(caches'), node_head))
             desired == [k \in wanted |-> PieceOf(k)]
         IN \A r \in free_unneeded_stored_pieces(caches', desired) :
              /\ r.to_store = EmptyMap
              /\ r.state.stored_pieces = piece_caches.stored_pieces]_vars

\* the Cache State the worker works on: the local one of initialize, the
\* published one otherwise
WorkerCaches == IF pc \in InitPositions THEN caches ELSE piece_caches

ZeroCapacity(cs) == total_capacity(cs) = 0

\* what a lookup returned comes from the piece caches
HitsPieceCaches(r) ==
    \/ r.phase = "read"
    \/ r.returned.from \in {"piece_cache", "find_piece"}
    \/ r.returned.from = "record" /\ ~r.returned.plot

\* C14: a step that leaves the worker with backends of total capacity 0 has
\* written no piece and leaves stored_pieces empty; a get_piece, find_piece
\* or record call that looks a key up in a published state of total
\* capacity 0 does not find it there.
C14_NoWriteNoHit ==
    [][/\ ZeroCapacity(WorkerCaches') => (disk' = disk /\ StoredKeys(WorkerCaches') = {})
       /\ (ZeroCapacity(piece_caches) /\ reader.phase = "idle" /\ reader' # reader)
             => ~HitsPieceCaches(reader')]_vars

\* keep-up has gone through a piece with no backend at all, and find_piece
\* has missed
C14_Witness ==
    /\ pc = "keep_up"
    /\ piece_caches.backends = << >>
    /\ queue # << >>
    /\ Len(queue) < PiecesPerSegment
    /\ reader.returned = NotFound

\* the latest call of the caller of PieceCachesState, once it has made one
LastCall == ops[Len(ops)]
LastCallIs(name) == ops # << >> /\ LastCall.name = name

EveryBackendFull(cs) == \A i \in DOMAIN cs.backends : free_size(cs.backends[i]) = 0

\* C15: pop_free_offset hands out the offset at the head of
\* dangling_free_offsets, offsets being queued at its tail, and leaves the
\* backends alone; only with no dangling offset does it take a fresh slot,
\* one backend's used_capacity growing by one; it returns nothing exactly
\* when there is no dangling offset and every backend is full.
C15_DanglingFirst ==
    /\ LastCallIs("pop_free_offset") =>
         LET before == LastCall.before
         IN /\ before.dangling_free_offsets # << >> =>
                 /\ held = Some(Head(before.dangling_free_offsets))
                 /\ caches.dangling_free_offsets = Tail(before.dangling_free_offsets)
                 /\ caches.backends = before.backends
            /\ caches.backends # before.backends =>
                 /\ before.dangling_free_offsets = << >>
                 /\ held # None
                 /\ SumUsed(caches.backends, 1) = SumUsed(before.backends, 1) + 1
            /\ held = None <=>
                 (before.dangling_free_offsets = << >> /\ EveryBackendFull(before))
            /\ caches.stored_pieces = before.stored_pieces
    /\ LastCallIs("push_dangling_free_offset") =>
         caches.dangling_free_offsets =
             Append(LastCall.before.dangling_free_offsets, LastCall.returned[1])

\* of two queued offsets the one queued first has been handed out, while a
\* backend had a free slot
C15_Witness ==
    /\ LastCallIs("pop_free_offset")
    /\ Len(LastCall.before.dangling_free_offsets) = 2
    /\ LastCall.before.dangling_free_offsets[1] # LastCall.before.dangling_free_offsets[2]
    /\ ~EveryBackendFull(LastCall.before)
    /\ held = Some(LastCall.before.dangling_free_offsets[1])

\* the backends of the largest free_size
LargestFree(cs) == {i \in DOMAIN cs.backends : free_size(cs.backends[i]) = MaxFreeSize(cs)}

\* the latest call was pop_free_offset and took a fresh slot
TookFreshSlot ==
    /\ LastCallIs("pop_free_offset")
    /\ LastCall.before.dangling_free_offsets = << >>
    /\ held # None

PushedThenRemoved ==
    /\ Len(ops) > 1
    /\ ops[Len(ops) - 1].name = "push_stored_piece"
    /\ ops[Len(ops) - 1].key \notin StoredKeys(ops[Len(ops) - 1].before)
    /\ LastCall.name = "remove_stored_piece"
    /\ LastCall.key = ops[Len(ops) - 1].key

\* the offset that was pushed: the one the state holds for the key between
\* the two calls
PushedOffset == LastCall.before.stored_pieces[LastCall.key]

\* C17 as stated: stored_pieces and backends are as before the push and the
\* offset is in dangling_free_offsets.
C17_Original ==
    PushedThenRemoved =>
        /\ caches.stored_pieces = ops[Len(ops) - 1].before.stored_pieces
        /\ caches.backends = ops[Len(ops) - 1].before.backends
        /\ PushedOffset \in DanglingOffsets(caches)

\* C17: push_stored_piece(k, o) followed by remove_stored_piece(k), k not
\* stored before, leaves the whole Cache State as it was before the push,
\* dangling_free_offsets included, and returns o to the caller.
C17_RoundTrip ==
    PushedThenRemoved =>
        /\ caches = ops[Len(ops) - 1].before
        /\ held = Some(PushedOffset)

\* the round trip has been made with an offset that is not queued as free
C17_Witness ==
    /\ PushedThenRemoved
    /\ held # None
    /\ held[1] \notin DanglingOffsets(caches)
    /\ StoredKeys(caches) # {}

\* the keys free_unneeded_stored_pieces found stored and not desired
Unneeded(call) == StoredKeys(call.before) \ DOMAIN call.desired

\* C18: after free_unneeded_stored_pieces(desired) stored_pieces holds the
\* keys that were stored and are in desired, at the offsets they had; the
\* offset of every other key that was stored has been appended once to
\* dangling_free_offsets; desired is left with its keys that were not stored,
\* the pieces to download; the backends are as they were.
C18_FreeUnneeded ==
    LastCallIs("free_unneeded_stored_pieces") =>
        LET before == LastCall.before
            desired == LastCall.desired
            to_store == LastCall.returned
            kept == StoredKeys(before) \cap DOMAIN desired
            queued == Len(before.dangling_free_offsets)
        IN /\ StoredKeys(caches) = kept
           /\ \A k \in kept : caches.stored_pieces[k] = before.stored_pieces[k]
           /\ SubSeq(caches.dangling_free_offsets, 1, queued) = before.dangling_free_offsets
           /\ \E order \in Perms(Unneeded(LastCall)) :
                SubSeq(caches.dangling_free_offsets, queued + 1,
                       Len(caches.dangling_free_offsets))
                    = [i \in DOMAIN order |-> before.stored_pieces[order[i]]]
           /\ DOMAIN to_store = DOMAIN desired \ StoredKeys(before)
           /\ \A k \in DOMAIN to_store : to_store[k] = desired[k]
           /\ caches.backends = before.backends

\* a call that kept a piece, freed two and left a piece to download
C18_Witness ==
    /\ LastCallIs("free_unneeded_stored_pieces")
    /\ StoredKeys(caches) # {}
    /\ Cardinality(Unneeded(LastCall)) = 2
    /\ LastCall.returned # EmptyMap

\* C19: record never waits for the lock of piece_caches: it can return in
\* every state; while the worker holds the write lock it returns none at
\* once, the lock not obtained and no plot cache probed; with the lock
\* obtained and the key stored it returns a provider record for the key and
\* probes no plot cache.
C19_RecordNeverWaits ==
    /\ reader.phase = "idle" => ENABLED Record
    /\ \A key \in RecordKeys :
         LET outcomes == record_outcomes(piece_caches, WriteLocked, key)
         IN /\ outcomes # {}
            /\ WriteLocked => outcomes = {NotProvided(key, FALSE, FALSE)}
            /\ (~WriteLocked /\ contains_stored_piece(piece_caches, key))
                  => outcomes = {Provided(key, FALSE)}

\* record has returned none for a stored key, the lock not obtained, the
\* worker still holding the write lock
C19_Witness ==
    /\ WriteLocked
    /\ reader.returned.from = "record_none"
    /\ ~reader.returned.read
    /\ reader.returned.key \in StoredKeys(piece_caches)

\* the slots whose contents differ between two contents of the piece caches
Written(d, e) ==
    UNION {{<<b, o>> : o \in {x \in DOMAIN d[b] : d[b][x] # e[b][x]}} : b \in PieceCacheIds}

\* the offsets pop_free_offset may hand out
Allocatable(cs) == {r.offset[1] : r \in {x \in pop_free_offset(cs) : x.offset # None}}

\* C20: commands leave the channel at its head, in the order they were
\* sent, and only where run receives them, never while initialize is at
\* work, so that a ReplaceBackingCaches sent during the download is acted on
\* after initialize has returned; every slot initialize writes belongs to a
\* backend of the state it built from its own list, at an offset that state
\* allocated, and is recorded in that state for the piece written.
C20_InOrderOwnBackends ==
    [][/\ Len(channel') < Len(channel) =>
             (pc \in {"recv_first", "loop"} /\ channel' = Tail(channel))
       /\ Len(channel') >= Len(channel) =>
             SubSeq(channel', 1, Len(channel)) = channel
       /\ pc \in InitPositions =>
             \A slot \in Written(disk, disk') :
                \E i \in DOMAIN caches.backends :
                   /\ caches.backends[i].backend = slot[1]
                   /\ BackendsOf(caches') = BackendsOf(caches)
                   /\ FarmerCacheOffset(i, slot[2]) \in Allocatable(caches)
                   /\ caches'.stored_pieces[ToRecordKey(disk'[slot[1]][slot[2]][1])]
                         = FarmerCacheOffset(i, slot[2])]_vars

\* initialize has written a piece while a ReplaceBackingCaches command with
\* another list of backends waits in the channel
C20_Witness ==
    /\ pc = "init_download"
    /\ downloaded_pieces_count > 0
    /\ channel # << >>
    /\ Head(channel).type = "ReplaceBackingCaches"
    /\ Head(channel).new_piece_caches # BackendsOf(caches)

\* a store_additional_piece call has returned
PlotCallReturned == plot_call.returned # None

\* the plot caches a call has tried that answered Ok(true)
StoredBy(call) == {i \in DOMAIN call.tried : call.answers[call.tried[i] + 1] = "Ok(true)"}

\* C21: store_additional_piece returns true exactly when a plot cache it
\* tried answered Ok(true), which is then the last one it tried; it tries no
\* plot cache twice and no more plot caches than there are.
C21_ReturnsStored ==
    PlotCallReturned =>
        /\ plot_call.returned[1] <=> StoredBy(plot_call) # {}
        /\ StoredBy(plot_call) \subseteq {Len(plot_call.tried)}
        /\ Len(plot_call.tried) <= Len(plot_call.answers)
        /\ \A i, j \in DOMAIN plot_call.tried :
              plot_call.tried[i] = plot_call.tried[j] => i = j

\* the values delivered are within [0, 100], strictly increase, and 100 is
\* the last of them
ProgressOrdered ==
    /\ \A i \in DOMAIN progress :
          /\ ~ProgressLess(progress[i], ProgressStart)
          /\ ~ProgressLess(ProgressDone, progress[i])
          /\ progress[i] = ProgressDone => i = Len(progress)
    /\ \A i, j \in DOMAIN progress : i < j => ProgressLess(progress[i], progress[j])

\* an initialization that was observed during its download phase and has
\* returned has delivered 100 last
ProgressEndsDone ==
    (progress # << >> /\ pc \notin InitPositions) => progress[Len(progress)] = ProgressDone

\* the step that delivers 100 publishes the Cache State the initialization
\* has built, and the initialization returns
DoneAfterPublication ==
    (progress' # progress /\ progress' # << >> /\ progress'[Len(progress')] = ProgressDone)
        => /\ pc = "init_finish"
           /\ piece_caches' = caches
           /\ pc' \notin InitPositions

\* C22: the progress values an observer is given during one initialization
\* strictly increase within [0, 100]; 100 is the last value, it is delivered
\* by the step of the final publication of the Cache State and by no step
\* before it.
C22_ProgressIncreases ==
    /\ [](ProgressOrdered /\ ProgressEndsDone)
    /\ [][DoneAfterPublication]_vars

\* an observer has been given 0, then at least one intermediate value, then
\* 100, by an initialization that has returned
C22_Witness ==
    /\ Len(progress) >= 3
    /\ progress[1] = ProgressStart
    /\ progress[Len(progress)] = ProgressDone
    /\ pc \notin InitPositions

\* the worker returns from run in this step
WorkerStops == pc # "exited" /\ pc' = "exited"

\* C23 as stated: the worker stops only when the command channel is closed
\* or the stream of segment notifications has ended.
C23_Original == [][WorkerStops => (ChannelDrained \/ StreamDrained)]_vars

\* what run returns on
StopCause ==
    \/ /\ pc = "recv_first"
       /\ \/ ChannelDrained
          \/ channel # << >> /\ Head(channel).type # "ReplaceBackingCaches"
    \/ pc = "subscribe" /\ ~reliable
    \/ pc = "loop" /\ (ChannelDrained \/ StreamDrained)

\* C23: the worker stops only when the command channel is closed and empty
\* (at the first receive or in the loop), when the first command is not
\* ReplaceBackingCaches, when the subscription to segment notifications
\* fails, or when the stream of notifications ends while it is in its loop;
\* it stops at no other position, so no failure of farmer_app_info, of a
\* fetch, of a scan or of a write stops it.
C23_StopCauses == [][WorkerStops => StopCause]_vars

\* the worker has processed a segment in its loop and has then stopped on
\* the closed channel, the stream still open
C23_Witness ==
    /\ pc = "exited"
    /\ \E segment_index \in DOMAIN acknowledged : acknowledged[segment_index] > 0
    /\ ChannelDrained
    /\ ~stream_ended

\* C24: the worker holds the write lock of the Cache State across no write
\* to a backend: no step it takes with the lock held changes a slot.
C24_NoWriteUnderLock == [][WriteLocked => disk' = disk]_vars

\* keep_up_after_initial_sync is walking its pieces
KeepingUp == pc \in {"keep_up", "keep_up_persist"}

\* C25: the pieces keep_up_after_initial_sync examines are pieces of segments
\* after last_segment_index and up to the head the node reported.
C25_OnlyLaterSegments ==
    KeepingUp =>
        \A i \in DOMAIN queue :
            \E segment_index \in (last_segment_index + 1)..target_segment :
                queue[i] \in SeqToSet(segment_piece_indexes(segment_index))

\* the positions of keep_up_after_initial_sync
KeepUpPositions == {"keep_up_app_info", "keep_up", "keep_up_persist"}

\* run has not yet entered its loop
StartingUp ==
    \/ pc \in {"recv_first", "subscribe"} \cup KeepUpPositions
    \/ pc \in InitPositions /\ init_return = "subscribe"

\* the worker takes a command from the channel in this step
Received == channel # << >> /\ channel' = Tail(channel)

\* C26: until run enters its loop the worker goes from the first receive
\* through the initialization to the subscription, from there into keep-up
\* and from keep-up into the loop; after the first command it takes no
\* command, it takes no segment notification and acknowledges none before
\* the loop, keep-up included.
C26_StartupOrdered ==
    [][StartingUp =>
         /\ pc # "recv_first" => ~Received
         /\ pc # "subscribe" => delivered' = delivered
         /\ acknowledged' = acknowledged
         /\ pc' = "subscribe" => pc \in {"recv_first", "subscribe"} \cup InitPositions
         /\ pc' \in KeepUpPositions => pc \in {"subscribe"} \cup KeepUpPositions
         /\ pc' = "keep_up_app_info" => pc \in {"subscribe", "keep_up_app_info"}
         /\ pc' = "loop" => pc \in KeepUpPositions
         /\ pc' \in {"recv_first", "subscribe", "loop", "exited"} \cup KeepUpPositions
                \cup InitPositions]_vars

\* keep-up is walking its pieces while a segment notification and a command
\* wait for the worker
C26_Witness ==
    /\ pc = "keep_up"
    /\ queue # << >>
    /\ delivered < node_head
    /\ channel # << >>

\* initialize returns from its farmer_app_info loop in this step
AppInfoAborts == pc = "init_app_info" /\ pc' \notin InitPositions

\* C27: when farmer_app_info fails during an initialization, the step
\* publishes the Cache State merged from the scans and the worker goes on to
\* what follows the initialization; from the start of the initialization to
\* that step no slot is written, and the heap and last_segment_index stay as
\* they were.
C27_AppInfoFailure ==
    [][/\ (pc' = "init_app_info" \/ AppInfoAborts) =>
              /\ disk' = disk
              /\ heap' = heap
              /\ last_segment_index' = last_segment_index
       /\ AppInfoAborts =>
              /\ piece_caches' = caches
              /\ pc' = init_return
              /\ pc' \in {"subscribe", "loop"}
              /\ queue' = << >> /\ downloading_pieces' = {}]_vars

\* the first initialization has returned on a failed farmer_app_info: what
\* the scan found is published and the heap is still the empty heap run made
C27_Witness ==
    /\ pc = "subscribe"
    /\ StoredKeys(piece_caches) # {}
    /\ heap.limit = 0
    /\ last_segment_index = 0

\* persist_piece_in_cache is about to be called for the head of the queue
Persisting ==
    /\ pc \in {"keep_up", "segment_pieces"}
    /\ queue # << >>
    /\ HeapShouldIncludeKey(heap, Head(queue))

\* no outcome of the download loop's turn that did not store the piece, and
\* no outcome of persist_piece_in_cache that did not write it, has the
\* piece's key pointing at a slot it did not point at before
FailedWriteNotStored ==
    /\ pc = "init_download" =>
          \A piece_index \in downloading_pieces :
              \A r \in StoreDownloaded(caches, disk, piece_index) :
                  ~r.stored => /\ r.caches.stored_pieces = caches.stored_pieces
                               /\ r.disk = disk
    /\ Persisting =>
          \A r \in persist_piece_in_cache(piece_caches, heap, disk, Head(queue)) :
              ~r.wrote =>
                  /\ r.disk = disk
                  /\ \A key \in DOMAIN r.caches.stored_pieces :
                        /\ key \in DOMAIN piece_caches.stored_pieces
                        /\ r.caches.stored_pieces[key] = piece_caches.stored_pieces[key]

\* a turn of the download loop took a free offset and stored nothing at it
DownloadWriteFailed ==
    /\ pc = "init_download"
    /\ caches' # caches
    /\ caches'.stored_pieces = caches.stored_pieces

\* persist_piece_in_cache took an offset and stored nothing at it
PersistWriteFailed ==
    /\ Persisting
    /\ piece_caches' # piece_caches
    /\ LET key == ToRecordKey(Head(queue))
       IN IF key \in DOMAIN piece_caches.stored_pieces
          THEN /\ key \in DOMAIN piece_caches'.stored_pieces
               /\ piece_caches'.stored_pieces[key] = piece_caches.stored_pieces[key]
          ELSE key \notin DOMAIN piece_caches'.stored_pieces

\* C28: an operation whose write_piece fails adds no key to stored_pieces
\* and writes no slot; the worker then goes on: the download loop with the
\* pieces still in flight (to the final publication when none is), keep-up
\* and process_segment_header with the next piece of their queue.
C28_FailedWrite ==
    /\ []FailedWriteNotStored
    /\ [][/\ DownloadWriteFailed =>
                /\ pc' = IF downloading_pieces' = {} THEN "init_finish" ELSE "init_download"
                /\ piece_caches' = piece_caches
                /\ downloaded_pieces_count' = downloaded_pieces_count
          /\ PersistWriteFailed =>
                /\ pc' = pc
                /\ queue' = Tail(queue)
                /\ disk' = disk]_vars

\* a write of the download loop has failed on backends that hold no piece:
\* an offset was handed out, nothing is stored, no slot is written, and the
\* loop goes on with the pieces in flight
C28_Witness ==
    /\ pc = "init_download"
    /\ downloading_pieces # {}
    /\ \A backend \in DOMAIN disk :
          \A piece_offset \in DOMAIN disk[backend] : disk[backend][piece_offset] = None
    /\ SumUsed(caches.backends, 1) > 0
    /\ DOMAIN caches.stored_pieces = {}
    /\ caches.dangling_free_offsets = << >>

\* the key heap.insert is about to evict for the head of the queue
Evicted == HeapInsert(heap, Head(queue)).evicted

\* persist_piece_in_cache is about to take its eviction arm
Evicting == Persisting /\ Evicted # None

\* C29: in the eviction arm of persist_piece_in_cache, when the evicted key
\* is stored and the write succeeds the new key takes the evicted key's
\* offset, the evicted key is gone, the slot written is that offset's, and
\* the free offsets and the backends' used_capacity are as before; when the
\* evicted key is not stored nothing is written and the Cache State is as
\* before.
C29_EvictionArm ==
    Evicting =>
        LET old_record_key == ToRecordKey(Evicted[1])
            record_key == ToRecordKey(Head(queue))
        IN \A r \in persist_piece_in_cache(piece_caches, heap, disk, Head(queue)) :
              IF old_record_key \in DOMAIN piece_caches.stored_pieces
              THEN r.wrote =>
                     LET offset == piece_caches.stored_pieces[old_record_key]
                     IN /\ record_key \in DOMAIN r.caches.stored_pieces
                        /\ r.caches.stored_pieces[record_key] = offset
                        /\ old_record_key \notin DOMAIN r.caches.stored_pieces
                        /\ DOMAIN r.caches.stored_pieces
                             = (DOMAIN piece_caches.stored_pieces \ {old_record_key})
                                   \cup {record_key}
                        /\ r.caches.dangling_free_offsets = piece_caches.dangling_free_offsets
                        /\ r.caches.backends = piece_caches.backends
                        /\ r.disk = write_piece(disk,
                                                piece_caches.backends[offset.cache_index].backend,
                                                offset.piece_offset, Head(queue))
              ELSE /\ ~r.wrote
                   /\ r.caches = piece_caches
                   /\ r.disk = disk

\* a heap of one key holds a piece of the segment being processed, stored:
\* persist_piece_in_cache has put it in the place of the piece it evicted
C29_Witness ==
    /\ pc \in {"keep_up", "segment_pieces"}
    /\ heap.limit = 1
    /\ \E piece_index \in heap.keys :
          /\ piece_index \in SeqToSet(segment_piece_indexes(target_segment))
          /\ target_segment > last_segment_index
          /\ ToRecordKey(piece_index) \in DOMAIN piece_caches.stored_pieces

\* the worker is about to handle a ForgetKey command
Forgetting == pc = "loop" /\ channel # << >> /\ Head(channel).type = "ForgetKey"

\* C30: of the outcomes of handling ForgetKey for a stored key, every one
\* removes the entry and appends its offset to the dangling free offsets,
\* one leaves the heap unchanged (the slot's piece index was not read), all
\* do when the slot holds none, and the heap changes by nothing but the
\* removal of the piece index read; ForgetKey for a key that is not stored
\* has one outcome, the Cache State and the heap unchanged.
C30_ForgetUnreadable ==
    Forgetting =>
        LET key == Head(channel).key
            outcomes == ForgetKey(piece_caches, heap, disk, key)
        IN IF key \in StoredKeys(piece_caches)
           THEN LET offset == piece_caches.stored_pieces[key]
                    slot == read_piece_index(disk,
                                             piece_caches.backends[offset.cache_index].backend,
                                             offset.piece_offset)
                IN /\ \A r \in outcomes :
                        /\ r.caches.stored_pieces = MapRemove(piece_caches.stored_pieces, key)
                        /\ r.caches.dangling_free_offsets =
                               Append(piece_caches.dangling_free_offsets, offset)
                        /\ r.caches.backends = piece_caches.backends
                        /\ r.heap # heap => slot # None /\ r.heap = HeapRemove(heap, slot[1])
                   /\ \E r \in outcomes : r.heap = heap
                   /\ slot = None => \A r \in outcomes : r.heap = heap
           ELSE outcomes = {[caches |-> piece_caches, heap |-> heap]}

\* ForgetKey was handled and the slot's piece index was not read: the slot
\* is dangling, its piece is not stored and still in the heap
C30_Witness ==
    /\ pc = "loop"
    /\ reader.returned.sent = 1
    /\ channel = << >>
    /\ \E offset \in DanglingOffsets(piece_caches) :
         LET slot == disk[piece_caches.backends[offset.cache_index].backend][offset.piece_offset]
         IN /\ slot # None
            /\ slot[1] \in heap.keys
            /\ ToRecordKey(slot[1]) \notin StoredKeys(piece_caches)

\* the worker takes the notification of a segment that is not after
\* last_segment_index
SkipsSegment ==
    /\ pc = "loop"
    /\ delivered' = delivered + 1
    /\ last_segment_index >= delivered + 1

\* C31: the step that takes the notification of a segment not greater than
\* last_segment_index acknowledges that segment once and changes nothing of
\* the Cache State, the slots, the heap and last_segment_index, fetching no
\* piece; the step that ends the processing of a greater segment sets
\* last_segment_index to that segment.
C31_SegmentSkipped ==
    [][/\ SkipsSegment =>
             /\ acknowledged' = [acknowledged EXCEPT ![delivered + 1] = @ + 1]
             /\ UNCHANGED <<piece_caches, disk, heap, last_segment_index, queue,
                            target_segment>>
             /\ pc' = "loop"
       /\ (pc = "segment_pieces" /\ pc' = "loop") =>
             /\ last_segment_index < target_segment
             /\ last_segment_index' = target_segment
             /\ acknowledged[target_segment] = 1]_vars

\* a notification is taken and acknowledged once, the worker is in its loop
\* with last_segment_index at that segment and nothing of that segment is in
\* the heap or stored
C31_Witness ==
    /\ pc = "loop"
    /\ delivered > 0
    /\ acknowledged[delivered] = 1
    /\ last_segment_index = delivered
    /\ \A piece_index \in SeqToSet(segment_piece_indexes(delivered)) :
          /\ piece_index \notin heap.keys
          /\ ToRecordKey(piece_index) \notin StoredKeys(piece_caches)

\* the worker is about to run initialize for the command at the head
Initializing ==
    /\ pc \in {"recv_first", "loop"}
    /\ channel # << >>
    /\ Head(channel).type = "ReplaceBackingCaches"

\* what the scans and the merge of that initialization build, the scans
\* stopping at `stops`
Scanned(stops) ==
    MergeCaches(PieceCachesState_new(reuse(piece_caches).stored_pieces,
                                     reuse(piece_caches).dangling_free_offsets, << >>),
                Head(channel).new_piece_caches, stops, 1)

\* the offsets the scan of the i-th backend reports as holding a piece, as
\* empty
ReportedPieces(i, stops) ==
    {o \in 0..(stops[i] - 1) : disk[Head(channel).new_piece_caches[i]][o] # None}
ReportedEmpty(i, stops) ==
    {o \in 0..(stops[i] - 1) : disk[Head(channel).new_piece_caches[i]][o] = None}
ReportedKey(i, o) == ToRecordKey(disk[Head(channel).new_piece_caches[i]][o][1])

\* used_capacity and dangling_free_offsets after the scans
ScannedFree(stops) ==
    LET cs == Scanned(stops)
    IN /\ \A i \in DOMAIN cs.backends :
            LET reported == ReportedPieces(i, stops)
            IN cs.backends[i].used_capacity =
                   IF reported = {} THEN 0
                   ELSE 1 + CHOOSE o \in reported : \A other \in reported : other <= o
       /\ DanglingOffsets(cs) =
              {FarmerCacheOffset(i, o) : i \in DOMAIN cs.backends, o \in 0..(MaxCapacity - 1)}
              \cap {offset \in [cache_index : DOMAIN cs.backends,
                                piece_offset : 0..(MaxCapacity - 1)] :
                      /\ offset.piece_offset \in ReportedEmpty(offset.cache_index, stops)
                      /\ offset.piece_offset < cs.backends[offset.cache_index].used_capacity}
       /\ Len(cs.dangling_free_offsets) = Cardinality(DanglingOffsets(cs))

\* C32: after the scans used_capacity is one more than the highest
\* offset reported with a piece, the dangling free offsets are the reported
\* empty offsets below it, and every reported piece's key is in stored_pieces
\* at the offset it was reported at.
C32_Original ==
    Initializing =>
        \A stops \in ScanStops(Head(channel).new_piece_caches) :
            /\ ScannedFree(stops)
            /\ \A i \in DOMAIN Head(channel).new_piece_caches :
                  \A o \in ReportedPieces(i, stops) :
                      /\ ReportedKey(i, o) \in StoredKeys(Scanned(stops))
                      /\ Scanned(stops).stored_pieces[ReportedKey(i, o)]
                             = FarmerCacheOffset(i, o)

\* every scan running to the end of its backend
ScansComplete == [i \in DOMAIN Head(channel).new_piece_caches |->
                     Capacity[Head(channel).new_piece_caches[i]]]

\* the entries and the dangling free offsets of `cs` in its i-th backend
StoredIn(cs, i) == {key \in StoredKeys(cs) : cs.stored_pieces[key].cache_index = i}
DanglingIn(cs, i) == {offset \in DanglingOffsets(cs) : offset.cache_index = i}

\* whatever scans fail: every backend is in the Cache State, the pieces a
\* scan reported before it stopped are stored, and a backend whose scan did
\* not fail has the used_capacity, the dangling free offsets and the entries
\* it has when no scan fails
ScanFailureContained ==
    Initializing =>
        \A stops \in ScanStops(Head(channel).new_piece_caches) :
            LET new_piece_caches == Head(channel).new_piece_caches
                cs == Scanned(stops)
                complete == Scanned(ScansComplete)
            IN /\ Len(cs.backends) = Len(new_piece_caches)
               /\ \A i \in DOMAIN new_piece_caches :
                     /\ cs.backends[i].backend = new_piece_caches[i]
                     /\ cs.backends[i].total_capacity = Capacity[new_piece_caches[i]]
                     /\ \A o \in ReportedPieces(i, stops) :
                            /\ ReportedKey(i, o) \in StoredKeys(cs)
                            /\ o < cs.backends[i].used_capacity
                     /\ \A key \in StoredIn(cs, i) :
                            cs.stored_pieces[key].piece_offset \in ReportedPieces(i, stops)
                     /\ i \notin FailedScans(new_piece_caches, stops) =>
                            /\ cs.backends[i] = complete.backends[i]
                            /\ DanglingIn(cs, i) = DanglingIn(complete, i)
                            /\ \A key \in StoredIn(complete, i) :
                                   /\ key \in StoredKeys(cs)
                                   /\ cs.stored_pieces[key] = complete.stored_pieces[key]

\* C33: a scan that fails at an item stops there and keeps what it reported
\* before, the other backends' results are what they are without the
\* failure, all backends are in the Cache State, and the initialization goes
\* on to ask the node for its head with that state.
C33_ScanFailure ==
    /\ []ScanFailureContained
    /\ [][(Initializing /\ channel' = Tail(channel) /\ pc' = "init_app_info") =>
             \E stops \in ScanStops(Head(channel).new_piece_caches) :
                 /\ caches' = Scanned(stops)
                 /\ scan_errors_left' = scan_errors_left
                        - Cardinality(FailedScans(Head(channel).new_piece_caches,
                                                  stops))]_vars

\* the scan of a backend has stopped at its second item, which holds a
\* piece: the piece of the first item is stored, the backend is in the Cache
\* State with the other one, and the initialization goes on
C33_Witness ==
    /\ pc = "init_app_info"
    /\ Len(caches.backends) = 2
    /\ caches.backends[1].used_capacity = 1
    /\ disk[caches.backends[1].backend][1] # None
    /\ StoredIn(caches, 1) # {}

\* the worker is in keep_up_after_initial_sync's or process_segment_header's
\* loop over pieces
PersistLoop == pc \in {"keep_up", "keep_up_persist", "segment_pieces", "segment_persist"}

\* C34: persist_piece_in_cache is only called, from keep-up or from the
\* processing of a segment, for a piece index for which heap.should_include_key
\* holds at the call, and the heap does not change between the test and the
\* heap.insert of the call.
C34_PersistOnlyIncluded ==
    /\ [](WriteLocked => queue # << >> /\ HeapShouldIncludeKey(heap, Head(queue)))
    /\ [][/\ (PersistLoop /\ queue' # queue /\ cacheVars' # cacheVars) =>
                HeapShouldIncludeKey(heap, Head(queue))
          /\ (WriteLocked /\ queue' = queue) => heap' = heap]_vars

\* the heap is full and the worker holds the write lock to persist a piece
\* closer to the peer than the farthest one of the heap
C34_Witness ==
    /\ WriteLocked
    /\ heap.limit > 0
    /\ Cardinality(heap.keys) = heap.limit
    /\ Distance(Head(queue)) < Distance(Farthest(heap.keys))

\* no two keys of `cs` are stored at the same offset
NoSharedOffset(cs) ==
    \A key1, key2 \in StoredKeys(cs) :
        key1 # key2 => cs.stored_pieces[key1] # cs.stored_pieces[key2]

\* no offset is queued twice as free in `cs`
NoRepeatedDangling(cs) ==
    \A i, j \in DOMAIN cs.dangling_free_offsets :
        i # j => cs.dangling_free_offsets[i] # cs.dangling_free_offsets[j]

\* whatever pop_free_offset hands out of `cs` is the offset of no stored key
PopsUnowned(cs) ==
    \A r \in pop_free_offset(cs) :
        r.offset # None => r.offset[1] \notin StoredOffsets(cs)

\* C35: in the published Cache State and in the one initialize builds, no
\* two record keys are stored at the same offset, no offset is queued twice
\* as free, and pop_free_offset hands out no slot a stored key owns.
C35_SlotsOwnedOnce ==
    /\ NoSharedOffset(piece_caches) /\ NoSharedOffset(caches)
    /\ NoRepeatedDangling(piece_caches) /\ NoRepeatedDangling(caches)
    /\ PopsUnowned(piece_caches) /\ PopsUnowned(caches)

\* a slot is queued as free while a key is stored, and the worker is about
\* to persist a piece that is not stored into a heap with room, which pops
\* that slot
C35_Witness ==
    /\ Persisting
    /\ StoredKeys(piece_caches) # {}
    /\ DanglingOffsets(piece_caches) # {}
    /\ ToRecordKey(Head(queue)) \notin StoredKeys(piece_caches)
    /\ Cardinality(heap.keys) < heap.limit

\* the entry of `key` in the published Cache State is at the slot the failed
\* read was of
PointsToFailedSlot(key) ==
    /\ failed_read.kept /\ failed_read.failed
    /\ failed_read.key = key
    /\ key \in StoredKeys(piece_caches)
    /\ piece_caches.stored_pieces[key].piece_offset = failed_read.piece_offset
    /\ piece_caches.stored_pieces[key].cache_index \in DOMAIN piece_caches.backends
    /\ piece_caches.backends[piece_caches.stored_pieces[key].cache_index].backend
           = failed_read.backend

\* C36: the step that handles ForgetKey{key} removes the entry of key only
\* if the entry is at the slot, same backend and same offset, whose read
\* failed for the get_piece call that sent the command.
C36_Original ==
    [][(ForgetsStoredKey /\ Head(channel).key \notin StoredKeys(piece_caches'))
           => PointsToFailedSlot(Head(channel).key)]_vars

\* every offset `cs` holds, stored or queued as free, is of a backend of `cs`
OffsetsOfOwnBackends(cs) ==
    \A offset \in StoredOffsets(cs) \cup DanglingOffsets(cs) :
        offset.cache_index \in DOMAIN cs.backends

\* the step of get_piece that finds a key reads on from the backend its
\* offset names in the state it was found in
ResolvesInSameState ==
    (reader.phase = "idle" /\ reader'.phase = "read") =>
        /\ reader'.key \in StoredKeys(piece_caches)
        /\ piece_caches.stored_pieces[reader'.key]
               = FarmerCacheOffset(reader'.cache_index, reader'.piece_offset)
        /\ reader'.cache_index \in DOMAIN piece_caches.backends
        /\ piece_caches.backends[reader'.cache_index].backend = reader'.backend

\* C37: every offset of the published Cache State has a cache_index of that
\* state's backends, a reader that finds a key reads from the backend of
\* that state, and from the start of an initialization to its first
\* publication the published state is empty.
C37_OwnBackends ==
    /\ [](/\ OffsetsOfOwnBackends(piece_caches)
          /\ pc = "init_app_info" => piece_caches = PieceCachesState_default)
    /\ [][ResolvesInSameState]_vars

\* a second initialization has started and nothing is published yet, while
\* a reader that found a key in the state published before reads its slot
C37_Witness ==
    /\ pc = "init_app_info"
    /\ heap.keys # {}
    /\ piece_caches = PieceCachesState_default
    /\ caches.backends # << >>
    /\ reader.phase = "read"

====
